---- MODULE Spec2Model ----
(***************************************************************************)
(* Model of the Asset Library Batch Processor.                             *)
(*                                                                         *)
(* The selection tree (BatchProcessor.FileTree) is modelled node by node:  *)
(* every FileTree object is a node number, its fields are functions from   *)
(* node numbers to values, and each UI callback of the tree is one action  *)
(* that applies the callback's whole effect.  The callbacks are written as *)
(* operators from a tree state to a tree state, recursing over the         *)
(* children exactly as the Python methods do.                              *)
(***************************************************************************)
EXTENDS Integers, Sequences, FiniteSets, TLC

(***************************************************************************)
(* Names.  A name is a sequence of one-character strings, so that the      *)
(* substring test of the search field and the suffix test of the format    *)
(* mask are computed, not assumed.                                         *)
(***************************************************************************)
Str_r     == <<"r">>
Str_d     == <<"d">>
Str_e     == <<"e">>
Str_x == <<"x">>

Str_y == <<"y">>

Str_a_fbx == <<"a", ".", "f", "b", "x">>
Str_b_fbx == <<"b", ".", "f", "b", "x">>
Str_c_txt == <<"c", ".", "t", "x", "t">>
Str_A_FBX == <<"A", ".", "F", "B", "X">>
Str_e_txt == <<"e", ".", "t", "x", "t">>

\* The extension the format mask keeps: the literal of name.endswith(".fbx").
FbxSuffix == <<".", "f", "b", "x">>

\* str.casefold() on the characters the names and queries are made of.
casefold_char(c) ==
    CASE c = "A" -> "a"
      [] c = "B" -> "b"
      [] c = "D" -> "d"
      [] c = "F" -> "f"
      [] c = "X" -> "x"
      [] OTHER   -> c

casefold(s) == [i \in 1..Len(s) |-> casefold_char(s[i])]

\* Python's `q in s` on strings: q occurs in s as a contiguous run.
contains(s, q) ==
    \E i \in 0..(Len(s) - Len(q)) : SubSeq(s, i + 1, i + Len(q)) = q

\* Python's s.endswith(suf).
endswith(s, suf) ==
    /\ Len(suf) <= Len(s)
    /\ SubSeq(s, Len(s) - Len(suf) + 1, Len(s)) = suf

(***************************************************************************)
(* Trees.  A tree is the sequence of its FileTree objects in the order     *)
(* _update_all_files creates them: node 1 is the depth-0 holder            *)
(* (__folder_structure), node 2 the node of the source directory itself,   *)
(* then for every directory its files followed by its sub-directories,     *)
(* top-down.  parent = 0 means "no parent"; folder is the constructor's    *)
(* folder argument.  A node's children are the nodes naming it as parent,  *)
(* in creation order (add_child appends).                                  *)
(***************************************************************************)
FileTree(parent, name, folder) ==
    [parent |-> parent, name |-> name, folder |-> folder]

\* r/ a.fbx c.txt
TreeFlat ==
    << FileTree(0, Str_r, TRUE), FileTree(1, Str_r, TRUE),
       FileTree(2, Str_a_fbx, FALSE), FileTree(2, Str_c_txt, FALSE) >>

\* r/ a.fbx  d/ b.fbx c.txt
TreeNested ==
    << FileTree(0, Str_r, TRUE), FileTree(1, Str_r, TRUE),
       FileTree(2, Str_a_fbx, FALSE), FileTree(2, Str_d, TRUE),
       FileTree(4, Str_b_fbx, FALSE), FileTree(4, Str_c_txt, FALSE) >>

\* r/ d/ c.txt  e/ a.fbx     (a chain of directories)
TreeChain ==
    << FileTree(0, Str_r, TRUE), FileTree(1, Str_r, TRUE),
       FileTree(2, Str_d, TRUE), FileTree(3, Str_c_txt, FALSE),
       FileTree(3, Str_e, TRUE), FileTree(5, Str_a_fbx, FALSE) >>

\* r/ a.fbx  d/ c.txt  e/    (a directory without asset files, an empty one)
TreeEmptyDir ==
    << FileTree(0, Str_r, TRUE), FileTree(1, Str_r, TRUE),
       FileTree(2, Str_a_fbx, FALSE), FileTree(2, Str_d, TRUE),
       FileTree(4, Str_c_txt, FALSE), FileTree(2, Str_e, TRUE) >>

\* r/ d/ a.fbx A.FBX  e/ b.fbx
TreeTwoDirs ==
    << FileTree(0, Str_r, TRUE), FileTree(1, Str_r, TRUE),
       FileTree(2, Str_d, TRUE), FileTree(3, Str_a_fbx, FALSE),
       FileTree(3, Str_A_FBX, FALSE), FileTree(2, Str_e, TRUE),
       FileTree(6, Str_b_fbx, FALSE) >>

\* r/ a.fbx  d/ b.fbx  e/ c.txt     (three levels, a file beside each)
TreeDeep ==
    << FileTree(0, Str_r, TRUE), FileTree(1, Str_r, TRUE),
       FileTree(2, Str_a_fbx, FALSE), FileTree(2, Str_d, TRUE),
       FileTree(4, Str_b_fbx, FALSE), FileTree(4, Str_e, TRUE),
       FileTree(6, Str_c_txt, FALSE) >>

\* r/ c.txt  d/ a.fbx  e/ e.txt b.fbx
TreeWide ==
    << FileTree(0, Str_r, TRUE), FileTree(1, Str_r, TRUE),
       FileTree(2, Str_c_txt, FALSE), FileTree(2, Str_d, TRUE),
       FileTree(4, Str_a_fbx, FALSE), FileTree(2, Str_e, TRUE),
       FileTree(6, Str_e_txt, FALSE), FileTree(6, Str_b_fbx, FALSE) >>

\* r/ c.txt               (the start-up directory need not hold an asset)
TreeNoAsset ==
    << FileTree(0, Str_r, TRUE), FileTree(1, Str_r, TRUE),
       FileTree(2, Str_c_txt, FALSE) >>

\* r/ a.fbx  d/ a.fbx c.txt     (one file name in two directories)
TreeSameName ==
    << FileTree(0, Str_r, TRUE), FileTree(1, Str_r, TRUE),
       FileTree(2, Str_a_fbx, FALSE), FileTree(2, Str_d, TRUE),
       FileTree(4, Str_a_fbx, FALSE), FileTree(4, Str_c_txt, FALSE) >>

\* r/ c.txt  d/ x/ y/ a.fbx  e/ b.fbx     (a directory after a deep one)
TreeStairs ==
    << FileTree(0, Str_r, TRUE), FileTree(1, Str_r, TRUE),
       FileTree(2, Str_c_txt, FALSE), FileTree(2, Str_d, TRUE),
       FileTree(4, Str_x, TRUE), FileTree(5, Str_y, TRUE),
       FileTree(6, Str_a_fbx, FALSE), FileTree(2, Str_e, TRUE),
       FileTree(8, Str_b_fbx, FALSE) >>

\* r/ d/ x/ a.fbx  y/ c.txt  e/ b.fbx     (two directories in a directory)
TreeFork ==
    << FileTree(0, Str_r, TRUE), FileTree(1, Str_r, TRUE),
       FileTree(2, Str_d, TRUE), FileTree(3, Str_x, TRUE),
       FileTree(4, Str_a_fbx, FALSE), FileTree(3, Str_y, TRUE),
       FileTree(6, Str_c_txt, FALSE), FileTree(2, Str_e, TRUE),
       FileTree(8, Str_b_fbx, FALSE) >>

AllTrees ==
    << TreeNoAsset, TreeFlat, TreeNested, TreeChain, TreeEmptyDir, TreeTwoDirs,
       TreeDeep, TreeWide, TreeSameName, TreeStairs, TreeFork >>

\* Bound: the largest number of FileTree objects of a tree that is explored.
MaxNodes == 7

Trees == { i \in 1..Len(AllTrees) : Len(AllTrees[i]) <= MaxNodes }

\* The search strings the text field is given.
Queries == { <<>>, <<"a">>, <<"t">>, <<".", "F">>, <<"d">>, <<"z">> }

Nodes(t) == 1..Len(AllTrees[t])

name(t, n) == AllTrees[t][n].name

parent(t, n) == AllTrees[t][n].parent

\* self._children, as the ordered sequence add_child builds.
RECURSIVE children_from(_, _, _)
children_from(t, n, k) ==
    IF k > Len(AllTrees[t]) THEN <<>>
    ELSE IF parent(t, k) = n THEN <<k>> \o children_from(t, n, k + 1)
    ELSE children_from(t, n, k + 1)

children(t, n) == children_from(t, n, 1)

\* self.depth: 0 for the holder, parent's depth + 1 below it.
RECURSIVE depth(_, _)
depth(t, n) == IF parent(t, n) = 0 THEN 0 ELSE depth(t, parent(t, n)) + 1

Range(s) == { s[i] : i \in 1..Len(s) }

(***************************************************************************)
(* The state of a tree: one record of per-node fields.                     *)
(*   included : FileTree.included                                          *)
(*   bolded   : FileTree.bolded                                            *)
(*   font     : the font of the node's label ("plain", "bold", "oblique")  *)
(*   checked  : the value of the node's checkbox                           *)
(*   enabled  : the enable state of the node's checkbox (masked = ~enabled)*)
(*   filtered : FileTree.__filtered                                        *)
(* The depth-0 holder has no checkbox and no label; its checked, enabled   *)
(* and font entries are never read or written by the code and stay at      *)
(* their initial values.                                                   *)
(***************************************************************************)
VARIABLES tree, fbx_only, included, bolded, font, checked, enabled, filtered,
          last

(***************************************************************************)
(* The state of the processor and of the file system it writes to.         *)
(*   dest, dest_changed, combine_meshes, own_fbx, scaling,                 *)
(*   allow_stretching : the fields of BatchProcessor of the same name      *)
(*                      (dest is self._dest, a path; <<>> is "")           *)
(*   dest_writable    : what os.access(dest, os.W_OK) answers for the      *)
(*                      directory the target dialog offers                 *)
(*   out_dirs         : the directories that exist at or below             *)
(*                      <dest>/_output                                     *)
(*   out_files        : the files that exist below <dest>/_output, the log *)
(*                      file excepted                                      *)
(*   log              : the lines of <dest>/_output/log.txt                *)
(*   pc               : "idle", or "processing" while __run_processor is   *)
(*                      inside its loop over the files                     *)
(*   files, index, warnings : the locals files, i and warnings of          *)
(*                      __run_processor                                    *)
(*   history          : one record per run requested so far: the state it  *)
(*                      was requested in and what it has done              *)
(***************************************************************************)
VARIABLES dest, dest_changed, dest_writable, combine_meshes, own_fbx, scaling,
          allow_stretching, out_dirs, out_files, log, pc, files, index, warnings,
          history

(***************************************************************************)
(* The geometry settings and one object of the scene.                      *)
(*   scale, main_axis, pivot_placement : the fields of BatchProcessor of   *)
(*                      the same name                                      *)
(*   mesh             : an object of the scene, as a Dag record            *)
(*   applied          : what __adjust_dimensions or __adjust_pivots did to *)
(*                      mesh, one record per call                          *)
(***************************************************************************)
VARIABLES scale, main_axis, pivot_placement, mesh, applied

(***************************************************************************)
(* The scan of the source directory in _update_all_files.                  *)
(*   walk           : what os.walk has still to deliver, a sequence of     *)
(*                    records [root, dirs, files]                          *)
(*   parent_folders : the local list of that name                          *)
(*   folder_amount  : the local list of that name                          *)
(*   built          : the FileTree objects created so far, in order        *)
(***************************************************************************)
VARIABLES walk, parent_folders, folder_amount, built

(***************************************************************************)
(* The Maya scene while a file is processed.                               *)
(*   scene   : the DAG objects of the scene                                *)
(*   step    : the statement of the loop body that runs next               *)
(*   fbx_objs : the local list fbx_obj                                     *)
(*   pivot_enabled : the field self.pivot                                  *)
(***************************************************************************)
VARIABLES scene, step, fbx_objs, pivot_enabled

treeVars ==
    <<tree, fbx_only, included, bolded, font, checked, enabled, filtered, last>>

settingVars == <<combine_meshes, own_fbx, scaling, allow_stretching>>

destVars == <<dest, dest_changed, dest_writable>>

diskVars == <<out_dirs, out_files, log>>

runVars == <<pc, files, index, warnings, history>>

geometryVars == <<scale, main_axis, pivot_placement, mesh, applied>>

buildVars == <<walk, parent_folders, folder_amount, built>>

sceneVars == <<scene, step, fbx_objs, pivot_enabled>>

processorVars ==
    <<settingVars, destVars, diskVars, runVars, geometryVars, buildVars,
      sceneVars>>

vars == <<treeVars, processorVars>>

state ==
    [included |-> included, bolded |-> bolded, font |-> font,
     checked |-> checked, enabled |-> enabled, filtered |-> filtered]

\* FileTree.__init__ for every node of tree t.
NewTree(t) ==
    [included |-> [n \in Nodes(t) |-> TRUE],
     bolded   |-> [n \in Nodes(t) |-> FALSE],
     font     |-> [n \in Nodes(t) |-> "plain"],
     checked  |-> [n \in Nodes(t) |-> TRUE],
     enabled  |-> [n \in Nodes(t) |-> TRUE],
     filtered |-> [n \in Nodes(t) |-> FALSE]]

\* cmds.text(self.label, e=True, font=...) together with self.bolded.
set_font(s, n, f) ==
    [s EXCEPT !.font[n] = f, !.bolded[n] = (f # "plain")]

set_included(s, n, st) ==
    set_font([s EXCEPT !.checked[n] = st, !.included[n] = st],
             n, IF st THEN "plain" ELSE "bold")

RECURSIVE include_children(_, _, _, _)
RECURSIVE include_children_each(_, _, _, _, _)

\* Variant of include_children that sets the node and stops: the children
\* are not visited.
include_children_shallow(t, s, n, st) == set_included(s, n, st)

\* include_children on the nodes chs[k..], in order, each with node n's
\* included value as it then is.
include_children_each(t, s, n, chs, k) ==
    IF k > Len(chs) THEN s
    ELSE include_children_each(
             t, include_children(t, s, chs[k], s.included[n]), n, chs, k + 1)

include_children(t, s, n, st) ==
    include_children_each(t, set_included(s, n, st), n, children(t, n), 1)

RECURSIVE child_include(_, _, _, _)

\* Variant of child_include that never passes the change on to the parent.
child_include_no_recursion(t, s, n, st) ==
    LET chs          == Range(children(t, n))
        change_state == IF ~st
                        THEN (s.included[n] # st) /\ ~(\E c \in chs : s.included[c])
                        ELSE (s.included[n] # st)
        plain_font   == IF ~st
                        THEN st
                        ELSE ~(\E c \in chs : s.bolded[c])
    IN  IF change_state
        THEN LET s1 == set_included(s, n, st)
             IN  IF ~plain_font /\ st THEN set_font(s1, n, "oblique") ELSE s1
        ELSE IF ~plain_font
             THEN set_font(s, n, "oblique")
             ELSE set_font(s, n, "plain")

\* Variant of child_include that, when the node changes, forces the new value
\* on the node's whole subtree (include_children in place of set_included).
child_include_overwrites_subtree(t, s, n, st) ==
    LET chs          == Range(children(t, n))
        change_state == IF ~st
                        THEN (s.included[n] # st) /\ ~(\E c \in chs : s.included[c])
                        ELSE (s.included[n] # st)
        plain_font   == IF ~st
                        THEN st
                        ELSE ~(\E c \in chs : s.bolded[c])
    IN  IF change_state
        THEN LET s1 == include_children(t, s, n, st)
                 s2 == IF ~plain_font /\ st THEN set_font(s1, n, "oblique") ELSE s1
             IN  IF depth(t, n) > 1
                 THEN child_include(t, s2, parent(t, n), st)
                 ELSE s2
        ELSE IF ~plain_font
             THEN set_font(s, n, "oblique")
             ELSE set_font(s, n, "plain")

child_include(t, s, n, st) ==
    LET chs          == Range(children(t, n))
        change_state == IF ~st
                        THEN (s.included[n] # st) /\ ~(\E c \in chs : s.included[c])
                        ELSE (s.included[n] # st)
        plain_font   == IF ~st
                        THEN st
                        ELSE ~(\E c \in chs : s.bolded[c])
    IN  IF change_state
        THEN LET s1 == set_included(s, n, st)
                 s2 == IF ~plain_font /\ st THEN set_font(s1, n, "oblique") ELSE s1
             IN  IF depth(t, n) > 1
                 THEN child_include(t, s2, parent(t, n), st)
                 ELSE s2
        ELSE IF ~plain_font
             THEN set_font(s, n, "oblique")
             ELSE set_font(s, n, "plain")

\* Variant of include that takes the value the checkbox had before the
\* click.
include_stale_checkbox(t, s, n, v) ==
    LET s0 == set_font([s EXCEPT !.checked[n] = v, !.included[n] = ~v],
                       n, IF ~v THEN "plain" ELSE "bold")
        s1 == include_children_each(t, s0, n, children(t, n), 1)
    IN  IF depth(t, n) > 1
        THEN child_include(t, s1, parent(t, n), s1.included[n])
        ELSE s1

\* FileTree.include, run by the checkbox's change command: v is the value
\* the checkbox has after the click.
include(t, s, n, v) ==
    LET s0 == set_font([s EXCEPT !.checked[n] = v, !.included[n] = v],
                       n, IF v THEN "plain" ELSE "bold")
        s1 == include_children_each(t, s0, n, children(t, n), 1)
    IN  IF depth(t, n) > 1
        THEN child_include(t, s1, parent(t, n), s1.included[n])
        ELSE s1

(***************************************************************************)
(* Text filter.  The recursive methods return a value and change the tree; *)
(* they are modelled as operators returning [s |-> tree state, r |-> the   *)
(* returned value].                                                        *)
(***************************************************************************)
RECURSIVE filter_str(_, _, _, _)
RECURSIVE filter_str_each(_, _, _, _, _, _)

\* Variant of the loop written `hidden and ch.filter_str(filter_str)`: once a
\* child is shown, the children after it are not visited.
filter_str_each_short_circuit(t, s, chs, k, q, hidden) ==
    IF k > Len(chs) THEN [s |-> s, r |-> hidden]
    ELSE IF ~hidden THEN [s |-> s, r |-> FALSE]
    ELSE LET c == filter_str(t, s, chs[k], q)
         IN  filter_str_each(t, c.s, chs, k + 1, q, c.r /\ hidden)

\* Variant of filter_str that also unticks the files it hides.
filter_str_deselects(t, s, n, q) ==
    IF Len(children(t, n)) > 0
    THEN LET c == filter_str_each(t, s, children(t, n), 1, q, TRUE)
         IN  [s |-> [c.s EXCEPT !.filtered[n] = c.r], r |-> c.r]
    ELSE IF ~contains(casefold(name(t, n)), casefold(q))
         THEN [s |-> set_included([s EXCEPT !.filtered[n] = TRUE], n, FALSE),
               r |-> TRUE]
         ELSE [s |-> [s EXCEPT !.filtered[n] = FALSE], r |-> FALSE]

\* The loop `hidden = ch.filter_str(filter_str) and hidden` over chs[k..].
filter_str_each(t, s, chs, k, q, hidden) ==
    IF k > Len(chs) THEN [s |-> s, r |-> hidden]
    ELSE LET c == filter_str(t, s, chs[k], q)
         IN  filter_str_each(t, c.s, chs, k + 1, q, c.r /\ hidden)

filter_str(t, s, n, q) ==
    IF Len(children(t, n)) > 0
    THEN LET c == filter_str_each(t, s, children(t, n), 1, q, TRUE)
         IN  [s |-> [c.s EXCEPT !.filtered[n] = c.r], r |-> c.r]
    ELSE IF ~contains(casefold(name(t, n)), casefold(q))
         THEN [s |-> [s EXCEPT !.filtered[n] = TRUE], r |-> TRUE]
         ELSE [s |-> [s EXCEPT !.filtered[n] = FALSE], r |-> FALSE]

\* The loop `hidden = ch.filter_str(filter_str)` of FileTree.filter.
RECURSIVE filter_each(_, _, _, _, _)
filter_each(t, s, chs, k, q) ==
    IF k > Len(chs) THEN s
    ELSE filter_each(t, filter_str(t, s, chs[k], q).s, chs, k + 1, q)

\* FileTree.filter on node n (the holder) with the text q of the search
\* field.  `filter_field == ""` compares the field's widget name, which is
\* never empty, so the holder's own flag is set to False.
filter(t, s, n, q) ==
    filter_each(t, [s EXCEPT !.filtered[n] = FALSE], children(t, n), 1, q)

(***************************************************************************)
(* Adding the search result to the selection.                              *)
(***************************************************************************)
RECURSIVE add_filter_children(_, _, _)
RECURSIVE add_filter_children_each(_, _, _, _)

\* Variant of add_filter_children whose file branch sets the file and does
\* not tell the parent.
add_filter_children_silent(t, s, n) ==
    IF Len(children(t, n)) > 0
    THEN LET s1 == add_filter_children_each(t, s, children(t, n), 1)
         IN  IF depth(t, n) > 1
             THEN child_include(t, s1, parent(t, n), TRUE)
             ELSE s1
    ELSE IF ~s.filtered[n]
         THEN set_included(s, n, TRUE)
         ELSE s

add_filter_children_each(t, s, chs, k) ==
    IF k > Len(chs) THEN s
    ELSE add_filter_children_each(
             t, add_filter_children(t, s, chs[k]), chs, k + 1)

add_filter_children(t, s, n) ==
    IF Len(children(t, n)) > 0
    THEN LET s1 == add_filter_children_each(t, s, children(t, n), 1)
         IN  IF depth(t, n) > 1
             THEN child_include(t, s1, parent(t, n), TRUE)
             ELSE s1
    ELSE IF ~s.filtered[n]
         THEN child_include(t, set_included(s, n, TRUE), parent(t, n), TRUE)
         ELSE s

\* cmds.setFocus(button) only moves the keyboard focus.
add_filter(t, s, n) == add_filter_children(t, s, n)

\* Variant of set_to_filter that does not clear the selection first.
set_to_filter_keeps_selection(t, s, n) == add_filter(t, s, n)

set_to_filter(t, s, n) ==
    add_filter(t, include_children(t, s, children(t, n)[1], FALSE), n)

(***************************************************************************)
(* Format mask.                                                            *)
(***************************************************************************)
RECURSIVE prune_fbx(_, _, _, _)
RECURSIVE prune_fbx_each(_, _, _, _, _, _)

\* Variant of the loop written `pruned and ch.prune_fbx(state)`: once pruned
\* is False, the children after it are not visited.
prune_fbx_each_short_circuit(t, s, chs, k, st, pruned) ==
    IF k > Len(chs) THEN [s |-> s, r |-> pruned]
    ELSE IF ~pruned THEN [s |-> s, r |-> FALSE]
    ELSE LET c == prune_fbx(t, s, chs[k], st)
         IN  prune_fbx_each(t, c.s, chs, k + 1, st, c.r /\ pruned)

\* Variant of prune_fbx that flips the enable state of a non-fbx file
\* instead of setting it.
prune_fbx_toggles(t, s, n, st) ==
    IF Len(children(t, n)) > 0
    THEN LET c == prune_fbx_each(t, s, children(t, n), 1, st, st)
         IN  IF depth(t, n) > 0
             THEN [s |-> [c.s EXCEPT !.enabled[n] = ~c.r], r |-> c.r]
             ELSE c
    ELSE IF ~endswith(name(t, n), FbxSuffix)
         THEN [s |-> [s EXCEPT !.enabled[n] = IF st THEN ~s.enabled[n] ELSE TRUE],
               r |-> st]
         ELSE [s |-> s, r |-> FALSE]

\* Variant of prune_fbx that also unticks the files it disables.
prune_fbx_deselects(t, s, n, st) ==
    IF Len(children(t, n)) > 0
    THEN LET c == prune_fbx_each(t, s, children(t, n), 1, st, st)
         IN  IF depth(t, n) > 0
             THEN [s |-> [c.s EXCEPT !.enabled[n] = ~c.r], r |-> c.r]
             ELSE c
    ELSE IF ~endswith(name(t, n), FbxSuffix)
         THEN [s |-> [s EXCEPT !.enabled[n] = ~st,
                               !.included[n] = IF st THEN FALSE ELSE @,
                               !.checked[n] = IF st THEN FALSE ELSE @],
               r |-> st]
         ELSE [s |-> s, r |-> FALSE]

\* The loop `pruned = ch.prune_fbx(state) and pruned` over chs[k..].
prune_fbx_each(t, s, chs, k, st, pruned) ==
    IF k > Len(chs) THEN [s |-> s, r |-> pruned]
    ELSE LET c == prune_fbx(t, s, chs[k], st)
         IN  prune_fbx_each(t, c.s, chs, k + 1, st, c.r /\ pruned)

prune_fbx(t, s, n, st) ==
    IF Len(children(t, n)) > 0
    THEN LET c == prune_fbx_each(t, s, children(t, n), 1, st, st)
         IN  IF depth(t, n) > 0
             THEN [s |-> [c.s EXCEPT !.enabled[n] = ~c.r], r |-> c.r]
             ELSE c
    ELSE IF ~endswith(name(t, n), FbxSuffix)
         THEN [s |-> [s EXCEPT !.enabled[n] = ~st], r |-> st]
         ELSE [s |-> s, r |-> FALSE]

\* The holder node of every tree: self.__folder_structure.
folder_structure == 1

RECURSIVE get_all_included_files(_, _, _)
RECURSIVE get_all_included_files_each(_, _, _, _)

\* Variant of get_all_included_files that does not ask whether the checkbox
\* is enabled.
get_all_included_files_unmasked(t, s, n) ==
    IF ~s.included[n]
    THEN <<>>
    ELSE IF Len(children(t, n)) > 0
         THEN get_all_included_files_each(t, s, children(t, n), 1)
         ELSE <<n>>

get_all_included_files_each(t, s, chs, k) ==
    IF k > Len(chs) THEN <<>>
    ELSE get_all_included_files(t, s, chs[k])
             \o get_all_included_files_each(t, s, chs, k + 1)

\* The result lists nodes; node n stands for its path self.__root.
get_all_included_files(t, s, n) ==
    LET is_enabled == IF depth(t, n) > 0 THEN s.enabled[n] ELSE TRUE
    IN  IF ~s.included[n] \/ ~is_enabled
        THEN <<>>
        ELSE IF Len(children(t, n)) > 0
             THEN get_all_included_files_each(t, s, children(t, n), 1)
             ELSE <<n>>

(***************************************************************************)
(* Paths.  A path is the sequence of its components, each component a name.*)
(* The source directory is the one-component path <<Str_r>>; the           *)
(* destination the target dialog offers is <<Str_w>>.                      *)
(***************************************************************************)
Str_w      == <<"w">>
Str_output == <<"_", "o", "u", "t", "p", "u", "t">>
Str_p      == <<"p">>
Str_q      == <<"q">>
Str_pShape == <<"p", "S">>
Str_qShape == <<"q", "S">>
Str_u      == <<"u">>
Str_uShape == <<"u", "S">>

\* FileTree.__root of node n: the holder and the node of the source
\* directory both hold self._root, every other node its parent's path joined
\* with its own name.
RECURSIVE root(_, _)
root(t, n) ==
    IF depth(t, n) <= 1 THEN <<name(t, n)>>
    ELSE Append(root(t, parent(t, n)), name(t, n))

\* self._root, the path the tree was built from.
source_root(t) == root(t, folder_structure)

dirname(p) == SubSeq(p, 1, Len(p) - 1)

basename(p) == p[Len(p)]

\* os.path.splitext on a name: the extension starts at the last dot, unless
\* only dots precede it.
splitext(nm) ==
    LET dots == { k \in 1..Len(nm) : nm[k] = "." }
        k    == CHOOSE d \in dots : \A e \in dots : e <= d
    IN  IF dots = {} \/ \A j \in 1..(k - 1) : nm[j] = "."
        THEN [short |-> nm, ext |-> <<>>]
        ELSE [short |-> SubSeq(nm, 1, k - 1), ext |-> SubSeq(nm, k, Len(nm))]

\* base_path of __run_processor.
base_path(d) == Append(d, Str_output)

\* The directory of __run_processor for the file f: the part of f's
\* directory after the source root, joined to base_path.
directory(t, d, f) ==
    LET dir      == dirname(f)
        root_len == Len(source_root(t))
    IN  base_path(d) \o SubSeq(dir, root_len + 1, Len(dir))

\* path of __run_processor for the file f.
path(t, d, f) == Append(directory(t, d, f), basename(f))

\* os.makedirs(p): p and every directory above it, from base_path down, exist
\* afterwards.  (Nothing above base_path is created here: __run_processor
\* only reaches makedirs after the log file was opened inside base_path.)
makedirs(dirs, d, p) ==
    dirs \cup { SubSeq(p, 1, k) : k \in Len(base_path(d))..Len(p) }

\* check_source: os.walk finds a file whose name ends with ".fbx".  The
\* directories on disk are the ones the tree was built from.
check_source(t) ==
    \E n \in Nodes(t) : ~AllTrees[t][n].folder /\ endswith(name(t, n), FbxSuffix)

(***************************************************************************)
(* The objects of an asset file.  cmds.ls(dag=True) lists transforms and   *)
(* shapes alike, so every mesh of a file is two DAG objects: its transform *)
(* (tr) and its shape.  bbox is cmds.exactWorldBoundingBox, members the    *)
(* source objects the object is made of.                                   *)
(***************************************************************************)
Dag(nm, tr, bbox, members) ==
    [name |-> nm, tr |-> tr, bbox |-> bbox, members |-> members]

\* a.fbx: a mesh on the grid and a thin one beside it.
Objects_a ==
    << Dag(Str_p, TRUE,  <<0, 0, 0, 50, 50, 50>>, {Str_p}),
       Dag(Str_pShape, FALSE, <<0, 0, 0, 50, 50, 50>>, {Str_p}),
       Dag(Str_q, TRUE,  <<0, 0, 0, 15, 50, 50>>, {Str_q}),
       Dag(Str_qShape, FALSE, <<0, 0, 0, 15, 50, 50>>, {Str_q}) >>

\* b.fbx: one small mesh.
Objects_b ==
    << Dag(Str_p, TRUE,  <<0, 0, 0, 15, 15, 15>>, {Str_p}),
       Dag(Str_pShape, FALSE, <<0, 0, 0, 15, 15, 15>>, {Str_p}) >>

\* cmds.file(f, i=True): the objects that are new in the scene afterwards.
import(nm) ==
    IF nm = Str_a_fbx THEN Objects_a
    ELSE IF nm = Str_b_fbx THEN Objects_b
    ELSE <<>>

Min(a, b) == IF a <= b THEN a ELSE b

Max(a, b) == IF a >= b THEN a ELSE b

RECURSIVE bbox_union(_, _)
bbox_union(objs, k) ==
    IF k = Len(objs) THEN objs[k].bbox
    ELSE LET b == objs[k].bbox
             c == bbox_union(objs, k + 1)
         IN  << Min(b[1], c[1]), Min(b[2], c[2]), Min(b[3], c[3]),
                Max(b[4], c[4]), Max(b[5], c[5]), Max(b[6], c[6]) >>

\* cmds.polyUnite followed by deleting the construction history: one mesh,
\* its transform and its shape, holding every object it was made of.
polyUnite(objs) ==
    LET all == UNION { objs[k].members : k \in 1..Len(objs) }
        box == bbox_union(objs, 1)
    IN  << Dag(Str_u, TRUE, box, all), Dag(Str_uShape, FALSE, box, all) >>

(***************************************************************************)
(* Lines of the log file.                                                  *)
(***************************************************************************)
StartLine(total) == [kind |-> "start", total |-> total]

OverwriteLine(p) == [kind |-> "overwrite", path |-> p]

GridLine(obj, f) == [kind |-> "grid", obj |-> obj, file |-> f]

StretchLine(obj, f) == [kind |-> "stretch", obj |-> obj, file |-> f]

FinishLine(done, total, w) ==
    [kind |-> "finish", processed |-> done, total |-> total, warnings |-> w]

(***************************************************************************)
(* __adjust_dimensions.  Sizes are integers and a scale factor is the      *)
(* fraction num/den of two positive integers, so that the comparisons with *)
(* 0.55, 1.45, 0.85 and 1.15 are exact.                                    *)
(***************************************************************************)
\* Numbers that are not whole are fractions num / den.
Frac(n, d) == [num |-> n, den |-> d]

\* The fraction with a positive denominator.
Norm(x) == IF x.den > 0 THEN x ELSE [num |-> -x.num, den |-> -x.den]

\* x < y
Less(x, y) == Norm(x).num * Norm(y).den < Norm(y).num * Norm(x).den

\* x / y, y # 0
Ratio(x, y) == Norm([num |-> x.num * y.den, den |-> x.den * y.num])

\* lo < x < hi
Within(x, lo, hi) == Less(lo, x) /\ Less(x, hi)

\* round(n / d) of Python 3: to the nearest integer, a half to the even one.
round(n, d) ==
    LET x == Norm(Frac(n, d))
        q == x.num \div x.den
        r == x.num % x.den
    IN  IF 2 * r < x.den THEN q
        ELSE IF 2 * r > x.den THEN q + 1
        ELSE IF q % 2 = 0 THEN q ELSE q + 1

cur_dimensions(obj) ==
    << obj.bbox[4] - obj.bbox[1], obj.bbox[5] - obj.bbox[2],
       obj.bbox[6] - obj.bbox[3] >>

\* grid[a] as a fraction.
grid(obj, stretching, a) ==
    IF stretching
    THEN [num |-> scale[a], den |-> 1]
    ELSE [num |-> cur_dimensions(obj)[a] * scale[4],
          den |-> cur_dimensions(obj)[main_axis + 1]]

\* Variant of scale_dim that scales every side to one cell of the grid.
scale_dim_one_cell(obj, stretching, a) ==
    LET g   == grid(obj, stretching, a)
        cur == cur_dimensions(obj)[a]
    IN  Norm([num |-> g.num, den |-> g.den * cur])

\* scale_dim of axis a: grid / cur * max(round(cur / grid), 1).
scale_dim(obj, stretching, a) ==
    LET g   == grid(obj, stretching, a)
        cur == cur_dimensions(obj)[a]
    IN  Norm([num |-> g.num * Max(round(cur * g.den, g.num), 1),
              den |-> g.den * cur])

\* Variant of warning_grid that looks at the first axis only.
warning_grid_first_axis(obj, stretching) ==
    ~Within(scale_dim(obj, stretching, 1), Frac(55, 100), Frac(145, 100))

\* not 0.55 < scale_dim < 1.45, on some axis
warning_grid(obj, stretching) ==
    \E a \in 1..3 :
        ~Within(scale_dim(obj, stretching, a), Frac(55, 100), Frac(145, 100))

\* Variant of warning_stretch that compares the first two axes only.
warning_stretch_first_pair(obj, stretching) ==
    ~Within(Ratio(scale_dim(obj, stretching, 1), scale_dim(obj, stretching, 2)),
            Frac(85, 100), Frac(115, 100))

\* not 0.85 < scale[j] / scale[i] < 1.15, for some j < i
warning_stretch(obj, stretching) ==
    \E a \in 1..3 : \E b \in 1..(a - 1) :
        ~Within(Ratio(scale_dim(obj, stretching, b),
                      scale_dim(obj, stretching, a)),
                Frac(85, 100), Frac(115, 100))

\* grid[i] / cur_dimensions[i] divides by zero: ZeroDivisionError.  Without
\* stretching the division by cur_dimensions[main_axis] comes first.
division_by_zero(obj, stretching) ==
    \/ ~stretching /\ cur_dimensions(obj)[main_axis + 1] = 0
    \/ \E a \in 1..3 : cur_dimensions(obj)[a] = 0

\* The three scale factors of an object.
scale_of(obj, stretching) == [a \in 1..3 |-> scale_dim(obj, stretching, a)]

RECURSIVE adjust_dimensions(_, _, _, _)
\* Variant of adjust_dimensions that counts one warning for an object however
\* many lines it logs for it.
adjust_dimensions_counts_objects(fbx, f, stretching, k) ==
    IF k > Len(fbx)
    THEN [lines |-> <<>>, warnings |-> 0, raised |-> FALSE, scaled |-> <<>>]
    ELSE IF division_by_zero(fbx[k], stretching)
    THEN [lines |-> <<>>, warnings |-> 0, raised |-> TRUE, scaled |-> <<>>]
    ELSE LET wg   == warning_grid(fbx[k], stretching)
             ws   == warning_stretch(fbx[k], stretching)
             rest == adjust_dimensions(fbx, f, stretching, k + 1)
         IN  [lines |-> (IF wg THEN <<GridLine(fbx[k].name, f)>> ELSE <<>>)
                        \o (IF ws THEN <<StretchLine(fbx[k].name, f)>>
                            ELSE <<>>)
                        \o rest.lines,
              warnings |-> (IF wg \/ ws THEN 1 ELSE 0) + rest.warnings,
              raised |-> rest.raised,
              scaled |-> <<scale_of(fbx[k], stretching)>> \o rest.scaled]

\* __adjust_dimensions over the objects fbx[k..]: the log lines it writes,
\* the number of warnings it counts (its return value), whether it raises
\* (the lines written and the objects scaled before remain) and the scale
\* factors it hands to cmds.scale, object by object.
adjust_dimensions(fbx, f, stretching, k) ==
    IF k > Len(fbx)
    THEN [lines |-> <<>>, warnings |-> 0, raised |-> FALSE, scaled |-> <<>>]
    ELSE IF division_by_zero(fbx[k], stretching)
    THEN [lines |-> <<>>, warnings |-> 0, raised |-> TRUE, scaled |-> <<>>]
    ELSE LET wg   == warning_grid(fbx[k], stretching)
             ws   == warning_stretch(fbx[k], stretching)
             rest == adjust_dimensions(fbx, f, stretching, k + 1)
         IN  [lines |-> (IF wg THEN <<GridLine(fbx[k].name, f)>> ELSE <<>>)
                        \o (IF ws THEN <<StretchLine(fbx[k].name, f)>>
                            ELSE <<>>)
                        \o rest.lines,
              warnings |-> (IF wg THEN 1 ELSE 0) + (IF ws THEN 1 ELSE 0)
                               + rest.warnings,
              raised |-> rest.raised,
              scaled |-> <<scale_of(fbx[k], stretching)>> \o rest.scaled]

(***************************************************************************)
(* __write_file.  The result lists the files written, each with the        *)
(* objects exported into it, the log lines written and the number of       *)
(* warnings counted, which is the value __write_file returns.              *)
(***************************************************************************)
\* cmds.ls(fbx, dag=True, tr=True)
transforms(fbx) == SelectSeq(fbx, LAMBDA o : o.tr)

\* short_path + "_" + f + ".fbx" and short_path + ".fbx": dir is the
\* directory of short_path, short the name without its extension.
own_path(dir, short, obj) == Append(dir, short \o <<"_">> \o obj \o FbxSuffix)

one_path(dir, short) == Append(dir, short \o FbxSuffix)

RECURSIVE write_own(_, _, _, _, _)
write_own(fbx, dir, short, existing, k) ==
    IF k > Len(fbx) THEN [written |-> <<>>, lines |-> <<>>, warnings |-> 0]
    ELSE LET full_path == own_path(dir, short, fbx[k].name)
             rest == write_own(fbx, dir, short, existing \cup {full_path},
                               k + 1)
         IN  [written |-> <<[path |-> full_path, objects |-> fbx[k].members]>>
                              \o rest.written,
              lines |-> (IF full_path \in existing
                         THEN <<OverwriteLine(full_path)>> ELSE <<>>)
                        \o rest.lines,
              warnings |-> (IF full_path \in existing THEN 1 ELSE 0)
                               + rest.warnings]

\* Writing everything to one file.
write_one(trs, dir, short, existing) ==
    [written |-> <<[path |-> one_path(dir, short),
                    objects |-> UNION { trs[k].members : k \in 1..Len(trs) }]>>,
     lines |-> IF one_path(dir, short) \in existing
               THEN <<OverwriteLine(one_path(dir, short))>> ELSE <<>>,
     warnings |-> IF one_path(dir, short) \in existing THEN 1 ELSE 0]

\* Variant of write_file that reports no file that existed before.
write_file_no_warning(fbx, dir, short, existing, own, combine) ==
    LET trs == transforms(fbx)
    IN  IF own /\ ~combine
        THEN write_own(trs, dir, short, {}, 1)
        ELSE write_one(trs, dir, short, {})

\* Variant of write_file that writes one file per object whenever own_fbx is
\* set.
write_file_own_always(fbx, dir, short, existing, own, combine) ==
    LET trs == transforms(fbx)
    IN  IF own
        THEN write_own(trs, dir, short, existing, 1)
        ELSE write_one(trs, dir, short, existing)

write_file(fbx, dir, short, existing, own, combine) ==
    LET trs == transforms(fbx)
    IN  IF own /\ ~combine
        THEN write_own(trs, dir, short, existing, 1)
        ELSE write_one(trs, dir, short, existing)

(***************************************************************************)
(* Actions.  `last` records the callback that ran last, its arguments and  *)
(* the tree state it started from, so that properties of one operation can *)
(* be stated over the state before and after it.                           *)
(***************************************************************************)
Apply(s) ==
    /\ included' = s.included
    /\ bolded'   = s.bolded
    /\ font'     = s.font
    /\ checked'  = s.checked
    /\ enabled'  = s.enabled
    /\ filtered' = s.filtered

Record(op, n, flag, q) ==
    last' = [op |-> op, node |-> n, flag |-> flag, query |-> q, pre |-> state]

\* The tree after __init__: _update_all_files builds it from the start-up
\* directory, then create_export_frame applies set_prune_fbx(self.fbx_only).
StartTree(t, f) == prune_fbx(t, NewTree(t), folder_structure, f).s

\* No object is in the scene before a file is loaded.
NoMesh == [name |-> <<>>, tr |-> TRUE, bbox |-> <<0, 0, 0, 0, 0, 0>>,
           members |-> {}]

\* self.scale, self.main_axis and self.pivot_placement as __init__ sets them:
\* a grid of 50 units on every axis, the X axis, the middle on every axis.
DefaultGeometry ==
    /\ scale = <<50, 50, 50, 50>>
    /\ main_axis = 0
    /\ pivot_placement = <<1, 1, 1>>
    /\ mesh = NoMesh
    /\ applied = <<>>

\* No scan is under way.
NoBuild ==
    /\ walk = <<>>
    /\ parent_folders = <<>>
    /\ folder_amount = <<>>
    /\ built = <<>>

\* An empty scene, no file in work; self.pivot as __init__ sets it.
NoScene ==
    /\ scene = {}
    /\ step = "idle"
    /\ fbx_objs = <<>>
    /\ pivot_enabled = TRUE

\* The other fields as __init__ sets them, nothing on disk, no run requested.
NoRun ==
    /\ NoBuild
    /\ NoScene
    /\ dest = <<>>
    /\ dest_changed = FALSE
    /\ dest_writable = TRUE
    /\ combine_meshes = TRUE
    /\ own_fbx = FALSE
    /\ scaling = TRUE
    /\ out_dirs = {}
    /\ out_files = {}
    /\ log = <<>>
    /\ pc = "idle"
    /\ files = <<>>
    /\ index = 0
    /\ warnings = 0
    /\ history = <<>>

DefaultProcessor ==
    /\ DefaultGeometry
    /\ allow_stretching = TRUE
    /\ NoRun

\* self.fbx_only is True unless a saved preference file says otherwise.
Init ==
    /\ tree \in Trees
    /\ fbx_only \in BOOLEAN
    /\ included = StartTree(tree, fbx_only).included
    /\ bolded   = StartTree(tree, fbx_only).bolded
    /\ font     = StartTree(tree, fbx_only).font
    /\ checked  = StartTree(tree, fbx_only).checked
    /\ enabled  = StartTree(tree, fbx_only).enabled
    /\ filtered = StartTree(tree, fbx_only).filtered
    /\ last = [op |-> "init", node |-> 0, flag |-> fbx_only, query |-> <<>>,
               pre |-> NewTree(tree)]
    /\ DefaultProcessor

\* The user clicks the checkbox of node n: the checkbox flips and its change
\* command runs include().  Only nodes below the holder have a checkbox, and
\* a disabled checkbox takes no click.  A row hidden by the search can be
\* shown again by clearing the search, which changes no field include()
\* reads, so visibility is not a guard.
Include ==
    \E n \in Nodes(tree) :
        /\ depth(tree, n) > 0
        /\ enabled[n]
        /\ Apply(include(tree, state, n, ~checked[n]))
        /\ Record("include", n, ~checked[n], <<>>)
        /\ UNCHANGED <<tree, fbx_only, processorVars>>

\* The change command of the search field.
Filter ==
    \E q \in Queries :
        /\ Apply(filter(tree, state, folder_structure, q))
        /\ Record("filter", 0, FALSE, q)
        /\ UNCHANGED <<tree, fbx_only, processorVars>>

\* The button "Add search to selection".
AddFilter ==
    /\ Apply(add_filter(tree, state, folder_structure))
    /\ Record("add_filter", 0, FALSE, <<>>)
    /\ UNCHANGED <<tree, fbx_only, processorVars>>

\* The button "Set selection to search".
SetToFilter ==
    /\ Apply(set_to_filter(tree, state, folder_structure))
    /\ Record("set_to_filter", 0, FALSE, <<>>)
    /\ UNCHANGED <<tree, fbx_only, processorVars>>

\* BatchProcessor.set_prune_fbx, the change command of the checkbox "Also
\* copy non-fbx files": the checkbox shows (not fbx_only) and flips.
SetPruneFbx ==
    /\ fbx_only' = ~fbx_only
    /\ Apply(prune_fbx(tree, state, folder_structure, ~fbx_only).s)
    /\ Record("prune_fbx", 0, ~fbx_only, <<>>)
    /\ UNCHANGED <<tree, processorVars>>

Next ==
    \/ Include
    \/ Filter
    \/ AddFilter
    \/ SetToFilter
    \/ SetPruneFbx

Spec == Init /\ [][Next]_vars

(***************************************************************************)
(* The run.  __run_processor is one synchronous call; it is modelled in    *)
(* three steps - the request with its checks and the first log line, one   *)
(* step per file of the loop, and the closing log line - so that the state *)
(* between two files can be observed.  An exception that leaves            *)
(* __run_processor ends the run where it is raised.                        *)
(***************************************************************************)
\* Bound: the number of runs requested.
MaxRuns == 2

\* check_dest, given the button the user presses if the dialog about an
\* existing output folder is shown.
check_dest(d, dirs, writable, button) ==
    IF d = <<>> THEN FALSE
    ELSE IF ~writable THEN FALSE
    ELSE IF base_path(d) \in dirs /\ button = "Choose new directory" THEN FALSE
    ELSE TRUE

Buttons == {"Choose new directory", "Continue"}

\* The record of a run at the moment it is requested.
Requested(fs) ==
    [ dest |-> dest, dest_writable |-> dest_writable,
      dest_changed |-> dest_changed,
      combine_meshes |-> combine_meshes, own_fbx |-> own_fbx,
      scaling |-> scaling, allow_stretching |-> allow_stretching,
      files |-> fs, included |-> included, enabled |-> enabled,
      out_dirs |-> out_dirs, out_files |-> out_files, log |-> log,
      outcome |-> "running", loaded |-> <<>>, copied |-> <<>>,
      written |-> <<>>, made |-> {}, failed_at |-> 0, failure |-> "none" ]

\* The run in progress or finished last.
current == history[Len(history)]

Outcome(h, o) == [h EXCEPT ![Len(h)].outcome = o]

\* The user sets the processor up and then runs it: selection, settings and
\* destination are edited until "Run" is clicked for the first time.
SettingUp == pc = "idle" /\ history = <<>>

\* The click on "Run": the checks of __run_processor, then the first line of
\* the log.  open(log_file, "a") raises when base_path does not exist.
RunProcessor ==
    /\ pc = "idle"
    /\ Len(history) < MaxRuns
    /\ \E button \in Buttons :
        LET fs     == get_all_included_files(tree, state, folder_structure)
            passed == /\ \/ dest_changed
                         \/ check_dest(dest, out_dirs, dest_writable, button)
                      /\ check_source(tree)
                      /\ Len(fs) # 0
        IN  IF ~passed
            THEN /\ history' = Outcome(Append(history, Requested(fs)),
                                       "rejected")
                 /\ UNCHANGED <<log, pc, files, index, warnings>>
            ELSE IF base_path(dest) \notin out_dirs
            THEN /\ history' = Outcome(Append(history, Requested(fs)),
                                       "raised")
                 /\ UNCHANGED <<log, pc, files, index, warnings>>
            ELSE /\ history' = Append(history, Requested(fs))
                 /\ log' = Append(log, StartLine(Len(fs)))
                 /\ pc' = "processing"
                 /\ files' = fs
                 /\ index' = 0
                 /\ warnings' = 0
    /\ UNCHANGED <<treeVars, geometryVars, buildVars, sceneVars, settingVars, destVars, out_dirs, out_files>>

\* What can go wrong while a file is processed: cmds.file cannot load the
\* asset, cmds.file cannot export it, shutil.copy2 cannot read or write.
Failures(asset) == IF asset THEN {"none", "load", "export"}
                   ELSE {"none", "copy"}

\* Variant of propagate in which the exception is caught in the loop and the
\* loop goes on with the next file.
propagate_caught(h, k, what) ==
    [history  |-> [h EXCEPT ![Len(h)].failed_at = k,
                            ![Len(h)].failure = what],
     pc       |-> "processing",
     files    |-> files,
     index    |-> k,
     warnings |-> warnings]

\* __run_processor has no try statement: an exception raised while file k is
\* processed leaves the loop and the function, and no later statement runs.
propagate(h, k, what) ==
    [history  |-> [Outcome(h, "raised") EXCEPT ![Len(h)].failed_at = k,
                                               ![Len(h)].failure = what],
     pc       |-> "idle",
     files    |-> <<>>,
     index    |-> 0,
     warnings |-> 0]

\* One pass of the loop `for f in files`.
ProcessFile ==
    /\ pc = "processing"
    /\ index < Len(files)
    /\ LET n         == files[index + 1]
           f         == root(tree, n)
           dir       == directory(tree, dest, f)
           dirs      == IF dir \in out_dirs THEN out_dirs
                        ELSE makedirs(out_dirs, dest, dir)
           file_name == basename(f)
           p         == path(tree, dest, f)
           sp        == splitext(file_name)
           made      == [history EXCEPT ![Len(history)].made =
                                            @ \cup (dirs \ out_dirs)]
       IN  /\ out_dirs' = dirs
           /\ \E failure \in Failures(sp.ext = FbxSuffix) :
              IF sp.ext = FbxSuffix
              THEN LET in_file == import(file_name)
                       fbx_obj == IF combine_meshes THEN polyUnite(in_file)
                                  ELSE in_file
                       dims    == IF scaling
                                  THEN adjust_dimensions(fbx_obj, f,
                                                         allow_stretching, 1)
                                  ELSE [lines |-> <<>>, warnings |-> 0,
                                        raised |-> FALSE, scaled |-> <<>>]
                       wf      == write_file(fbx_obj, dir, sp.short, out_files,
                                             own_fbx, combine_meshes)
                       \* The first export fails: the file to write has been
                       \* looked up and reported, and is not written.
                       first   == IF wf.written[1].path \in out_files
                                  THEN <<OverwriteLine(wf.written[1].path)>>
                                  ELSE <<>>
                       raised  == propagate(made, index + 1,
                                      IF failure = "none" THEN "scale"
                                      ELSE failure)
                   IN  IF failure = "load" \/ dims.raised
                          \/ failure = "export"
                       THEN /\ log' = IF failure = "load" THEN log
                                      ELSE IF dims.raised
                                      THEN log \o dims.lines
                                      ELSE log \o dims.lines \o first
                            /\ history' = raised.history
                            /\ pc' = raised.pc
                            /\ files' = raised.files
                            /\ index' = raised.index
                            /\ warnings' = raised.warnings
                            /\ UNCHANGED out_files
                       ELSE /\ log' = log \o dims.lines \o wf.lines
                            /\ warnings' = warnings + dims.warnings
                                               + wf.warnings
                            /\ out_files' = out_files
                                   \cup { wf.written[k].path :
                                            k \in 1..Len(wf.written) }
                            /\ history' =
                                   [made EXCEPT
                                      ![Len(history)].loaded = Append(@, n),
                                      ![Len(history)].written =
                                          @ \o [k \in 1..Len(wf.written) |->
                                                  [src |-> n,
                                                   path |-> wf.written[k].path,
                                                   objects |->
                                                       wf.written[k].objects]]]
                            /\ index' = index + 1
                            /\ UNCHANGED <<pc, files>>
              ELSE IF AllTrees[tree][n].folder \/ failure = "copy"
              \* shutil.copy2 raises for a directory.
              THEN LET raised == propagate(made, index + 1, "copy")
                   IN  /\ history' = raised.history
                       /\ pc' = raised.pc
                       /\ files' = raised.files
                       /\ index' = raised.index
                       /\ warnings' = raised.warnings
                       /\ UNCHANGED <<log, out_files>>
              ELSE /\ log' = IF p \in out_files
                             THEN Append(log, OverwriteLine(p)) ELSE log
                   /\ warnings' = IF p \in out_files THEN warnings + 1
                                  ELSE warnings
                   /\ out_files' = out_files \cup {p}
                   /\ history' =
                          [made EXCEPT
                             ![Len(history)].copied = Append(@, n),
                             ![Len(history)].written =
                                 Append(@, [src |-> n, path |-> p,
                                            objects |-> {}])]
                   /\ index' = index + 1
                   /\ UNCHANGED <<pc, files>>
    /\ UNCHANGED <<treeVars, geometryVars, buildVars, sceneVars, settingVars, destVars>>

\* After the loop: the closing line of the log.
FinishRun ==
    /\ pc = "processing"
    /\ index = Len(files)
    /\ log' = Append(log, FinishLine(index, Len(files), warnings))
    /\ history' = Outcome(history, "finished")
    /\ pc' = "idle"
    /\ files' = <<>>
    /\ index' = 0
    /\ warnings' = 0
    /\ UNCHANGED <<treeVars, geometryVars, buildVars, sceneVars, settingVars, destVars, out_dirs, out_files>>

\* target_browse: the user picks the directory <<Str_w>> in the dialog; it
\* becomes the destination when check_dest accepts it.
TargetBrowse ==
    /\ SettingUp
    /\ \E button \in Buttons :
           check_dest(<<Str_w>>, out_dirs, dest_writable, button)
    /\ dest' = <<Str_w>>
    /\ dest_changed' = TRUE
    /\ UNCHANGED <<treeVars, geometryVars, buildVars, sceneVars, settingVars, dest_writable, diskVars, runVars>>

\* The write permission of the directory <<Str_w>> is changed outside the
\* program.  It is what os.access answers; the directories below are not
\* touched.
SetAccess ==
    /\ SettingUp
    /\ dest_writable' = ~dest_writable
    /\ UNCHANGED <<treeVars, geometryVars, buildVars, sceneVars, settingVars, dest, dest_changed, diskVars,
                   runVars>>

\* set_combine, the change command of the checkbox "Combine meshes".
SetCombine ==
    /\ SettingUp
    /\ combine_meshes' = ~combine_meshes
    /\ UNCHANGED <<treeVars, geometryVars, buildVars, sceneVars, own_fbx, scaling, allow_stretching, destVars,
                   diskVars, runVars>>

\* set_own_fbx, the change command of the checkbox "Give each mesh its own
\* fbx file", which is enabled while "Combine meshes" is off.
SetOwnFbx ==
    /\ SettingUp
    /\ ~combine_meshes
    /\ own_fbx' = ~own_fbx
    /\ UNCHANGED <<treeVars, geometryVars, buildVars, sceneVars, combine_meshes, scaling, allow_stretching,
                   destVars, diskVars, runVars>>

\* The trees the runs are explored on.
RunTrees ==
    { t \in 1..Len(AllTrees) :
        AllTrees[t] \in { TreeNoAsset, TreeFlat, TreeNested, TreeEmptyDir,
                          TreeSameName } }

\* A click on the checkbox of node n, as in Include.
IncludeBeforeRun ==
    /\ SettingUp
    /\ \E n \in Nodes(tree) :
           /\ depth(tree, n) > 0
           /\ enabled[n]
           /\ Apply(include(tree, state, n, ~checked[n]))
    /\ UNCHANGED <<tree, fbx_only, last, processorVars>>

\* A click on "Also copy non-fbx files", as in SetPruneFbx.
SetPruneFbxBeforeRun ==
    /\ SettingUp
    /\ fbx_only' = ~fbx_only
    /\ Apply(prune_fbx(tree, state, folder_structure, ~fbx_only).s)
    /\ UNCHANGED <<tree, last, processorVars>>

\* The processor after __init__: the destination and the scaling switch may
\* come from saved preferences, the other settings are the defaults and
\* dest_changed starts False.  The directory <<Str_w>> may hold an _output
\* folder already.
InitRun ==
    /\ tree \in RunTrees
    /\ fbx_only \in BOOLEAN
    /\ included = StartTree(tree, fbx_only).included
    /\ bolded   = StartTree(tree, fbx_only).bolded
    /\ font     = StartTree(tree, fbx_only).font
    /\ checked  = StartTree(tree, fbx_only).checked
    /\ enabled  = StartTree(tree, fbx_only).enabled
    /\ filtered = StartTree(tree, fbx_only).filtered
    /\ last = [op |-> "init", node |-> 0, flag |-> fbx_only, query |-> <<>>,
               pre |-> NewTree(tree)]
    /\ DefaultGeometry
    /\ NoBuild
    /\ NoScene
    /\ dest \in {<<>>, <<Str_w>>}
    /\ dest_changed = FALSE
    /\ dest_writable \in BOOLEAN
    /\ combine_meshes = TRUE
    /\ own_fbx = FALSE
    /\ scaling \in BOOLEAN
    /\ allow_stretching = TRUE
    /\ out_dirs \in {{}, {base_path(<<Str_w>>)}}
    /\ out_files = {}
    /\ log = <<>>
    /\ pc = "idle"
    /\ files = <<>>
    /\ index = 0
    /\ warnings = 0
    /\ history = <<>>

NextRun ==
    \/ IncludeBeforeRun
    \/ SetPruneFbxBeforeRun
    \/ TargetBrowse
    \/ SetAccess
    \/ SetCombine
    \/ SetOwnFbx
    \/ RunProcessor
    \/ ProcessFile
    \/ FinishRun

SpecRun == InitRun /\ [][NextRun]_vars

(***************************************************************************)
(* Vocabulary of the properties.                                           *)
(***************************************************************************)
\* A leaf is a node without children: what the tree's methods treat as a
\* file (`len(self._children) > 0` is their test for a directory).
IsLeaf(t, n) == Len(children(t, n)) = 0

IsDirectory(t, n) == Len(children(t, n)) > 0

RECURSIVE IsAncestor(_, _, _)
\* a is a proper ancestor of n.
IsAncestor(t, a, n) ==
    /\ parent(t, n) # 0
    /\ (parent(t, n) = a \/ IsAncestor(t, a, parent(t, n)))

Descendants(t, n) == { m \in Nodes(t) : IsAncestor(t, n, m) }

DescendantLeaves(t, n) == { m \in Descendants(t, n) : IsLeaf(t, m) }

RECURSIVE LeavesDepthFirst(_, _)
RECURSIVE LeavesDepthFirstEach(_, _, _)

LeavesDepthFirstEach(t, chs, k) ==
    IF k > Len(chs) THEN <<>>
    ELSE LeavesDepthFirst(t, chs[k]) \o LeavesDepthFirstEach(t, chs, k + 1)

\* Every leaf below n (n itself when it is one), in depth-first child order.
LeavesDepthFirst(t, n) ==
    IF IsLeaf(t, n) THEN <<n>>
    ELSE LeavesDepthFirstEach(t, children(t, n), 1)

Masked(n) == ~enabled[n]

IncludedFiles == get_all_included_files(tree, state, folder_structure)

\* C1: in every reachable state get_all_included_files() on the holder is
\* exactly the sequence of leaves that are included and not masked, in
\* depth-first child order; pruning at an excluded or masked directory drops
\* no such leaf.
C1_FlattenIsEffectiveLeaves ==
    IncludedFiles =
        SelectSeq(LeavesDepthFirst(tree, folder_structure),
                  LAMBDA n : included[n] /\ ~Masked(n))

\* A state in which the traversal prunes (an excluded directory, and a masked
\* one) and still has leaves to emit, after the selection has been edited.
C1_Witness ==
    /\ last.op \in {"include", "add_filter", "set_to_filter"}
    /\ \E d \in Nodes(tree) : IsDirectory(tree, d) /\ ~included[d]
    /\ \E d \in Nodes(tree) : IsDirectory(tree, d) /\ depth(tree, d) > 0 /\ Masked(d)
    /\ Len(IncludedFiles) > 0

\* C2: the list of get_all_included_files() never holds a leaf whose checkbox
\* is disabled, whatever that leaf's included flag is.
C2_NoMaskedLeafEmitted ==
    \A i \in 1..Len(IncludedFiles) : ~Masked(IncludedFiles[i])

\* A masked leaf that is included, beside an emitted one.
C2_Witness ==
    /\ \E n \in Nodes(tree) : IsLeaf(tree, n) /\ Masked(n) /\ included[n]
    /\ Len(IncludedFiles) > 0
    /\ last.op # "init"

\* The node of the source directory itself: the top directory of the tree.
top_directory == 2

\* C3: after the top directory is toggled to excluded, from any state,
\* get_all_included_files() on the holder is empty.
C3_TopExcludedFlattenEmpty ==
    (last.op = "include" /\ last.node = top_directory /\ ~last.flag)
        => IncludedFiles = <<>>

\* The top directory has just been switched off in a state whose list was
\* not empty.
C3_Witness ==
    /\ last.op = "include" /\ last.node = top_directory /\ ~last.flag
    /\ Len(get_all_included_files(tree, last.pre, folder_structure)) > 0

\* The display state of a node: Plain, Bold or Oblique is the label's font.
SameSelection(s1, s2) ==
    /\ s1.included = s2.included
    /\ s1.font = s2.font

\* C4 (as claimed): a leaf that was excluded and has just been toggled to
\* included, when toggled back to excluded, leaves included and the display
\* state of every node as they were before the first toggle.
C4_RoundTripOnOff ==
    (last.op = "include" /\ IsLeaf(tree, last.node) /\ last.flag)
        => SameSelection(include(tree, state, last.node, FALSE), last.pre)

\* C5 (as claimed): every directory, the depth-0 holder included, is included
\* if and only if at least one of its children is included.
C5_DirectoryIncludedIffChild ==
    \A d \in Nodes(tree) :
        IsDirectory(tree, d)
            => (included[d] <=> \E c \in Range(children(tree, d)) : included[c])

\* C6 (as claimed): the display state of every directory reflects its whole
\* subtree: Bold iff the node and every descendant are excluded, Plain iff
\* the node and every descendant are included, Oblique iff some descendant
\* leaf is included and some is excluded.
C6_DisplayReflectsSubtree ==
    \A d \in Nodes(tree) :
        (IsDirectory(tree, d) /\ depth(tree, d) > 0) =>
            LET sub == Descendants(tree, d) \cup {d}
                lvs == DescendantLeaves(tree, d)
            IN  /\ font[d] = "bold" <=> \A m \in sub : ~included[m]
                /\ font[d] = "plain" <=> \A m \in sub : included[m]
                /\ font[d] = "oblique" <=>
                       /\ \E m \in lvs : included[m]
                       /\ \E m \in lvs : ~included[m]

\* C7: toggling a directory to a value sets included to that value on the
\* directory and on every descendant, whatever they were, and sets their
\* display state to Plain for true and to Bold for false.
C7_DirectoryToggleForcesSubtree ==
    (last.op = "include" /\ IsDirectory(tree, last.node)) =>
        \A m \in Descendants(tree, last.node) \cup {last.node} :
            /\ included[m] = last.flag
            /\ font[m] = (IF last.flag THEN "plain" ELSE "bold")

\* A directory with a sub-directory has been toggled while its subtree was
\* mixed.
C7_Witness ==
    /\ last.op = "include" /\ IsDirectory(tree, last.node)
    /\ \E m \in Descendants(tree, last.node) : IsDirectory(tree, m)
    /\ \E m \in Descendants(tree, last.node) : last.pre.included[m]
    /\ \E m \in Descendants(tree, last.node) : ~last.pre.included[m]

\* C8: toggling a leaf changes included and the display state of no node but
\* the leaf and its ancestors, and changes no masked and no filteredOut flag.
C8_LeafToggleFrame ==
    (last.op = "include" /\ IsLeaf(tree, last.node)) =>
        /\ \A m \in Nodes(tree) :
               (m # last.node /\ ~IsAncestor(tree, m, last.node)) =>
                   /\ included[m] = last.pre.included[m]
                   /\ font[m] = last.pre.font[m]
        /\ enabled = last.pre.enabled
        /\ filtered = last.pre.filtered

\* A leaf toggle that changed an ancestor, beside a sibling directory whose
\* subtree holds included and excluded nodes.
C8_Witness ==
    /\ last.op = "include" /\ IsLeaf(tree, last.node)
    /\ included[parent(tree, last.node)]
           # last.pre.included[parent(tree, last.node)]
    /\ \E m \in Nodes(tree) :
           /\ m # last.node /\ ~IsAncestor(tree, m, last.node)
           /\ depth(tree, m) > 0
           /\ included[m]
    /\ \E m \in Nodes(tree) :
           /\ m # last.node /\ ~IsAncestor(tree, m, last.node)
           /\ ~included[m]

\* C9: after add-search-to-selection every leaf that is not filteredOut is
\* included and so is each of its ancestors below the holder, and every leaf
\* that is filteredOut keeps the included value it had.
C9_AddFilterIncludesMatches ==
    (last.op = "add_filter") =>
        \A l \in Nodes(tree) :
            IsLeaf(tree, l) =>
                /\ ~filtered[l] =>
                       /\ included[l]
                       /\ \A a \in Nodes(tree) :
                              (IsAncestor(tree, a, l) /\ depth(tree, a) > 0)
                                  => included[a]
                /\ filtered[l] => included[l] = last.pre.included[l]

\* Add-search-to-selection has included a matching leaf two levels below an
\* excluded top directory, and left an excluded non-matching leaf alone.
C9_Witness ==
    /\ last.op = "add_filter"
    /\ ~last.pre.included[top_directory]
    /\ \E l \in Nodes(tree) :
           /\ IsLeaf(tree, l) /\ ~filtered[l] /\ depth(tree, l) > 2
           /\ ~last.pre.included[l] /\ included[l]
    /\ \E l \in Nodes(tree) : IsLeaf(tree, l) /\ filtered[l] /\ ~included[l]

\* C10 (as claimed): add-search-to-selection leaves untouched every directory
\* all of whose descendant leaves are filteredOut: its included flag and its
\* display state are as before the operation.
C10_AddFilterLeavesOthersUntouched ==
    (last.op = "add_filter") =>
        \A d \in Nodes(tree) :
            (/\ IsDirectory(tree, d)
             /\ \A l \in DescendantLeaves(tree, d) : filtered[l])
                => /\ included[d] = last.pre.included[d]
                   /\ font[d] = last.pre.font[d]

\* C11: after set-selection-to-search, from any selection, the included
\* leaves are exactly the leaves that are not filteredOut.
C11_SetToFilterSelectsMatches ==
    (last.op = "set_to_filter") =>
        \A l \in Nodes(tree) :
            IsLeaf(tree, l) => (included[l] <=> ~filtered[l])

\* Set-selection-to-search has dropped an included leaf that does not match
\* and has added an excluded leaf that matches.
C11_Witness ==
    /\ last.op = "set_to_filter"
    /\ \E l \in Nodes(tree) :
           IsLeaf(tree, l) /\ filtered[l] /\ last.pre.included[l] /\ ~included[l]
    /\ \E l \in Nodes(tree) :
           IsLeaf(tree, l) /\ ~filtered[l] /\ ~last.pre.included[l] /\ included[l]

\* q is a case-insensitive substring of the name nm.
MatchesQuery(nm, q) == contains(casefold(nm), casefold(q))

\* C12: after a text filter with query q every leaf has filteredOut = (q is
\* not empty and q is no case-insensitive substring of its name), and every
\* directory with children (below the holder, which has no row) is
\* filteredOut iff every descendant leaf is; no child keeps a stale flag.
C12_FilterSetsFlags ==
    (last.op = "filter") =>
        \A n \in Nodes(tree) :
            depth(tree, n) > 0 =>
                IF IsLeaf(tree, n)
                THEN filtered[n] =
                         (last.query # <<>> /\ ~MatchesQuery(name(tree, n), last.query))
                ELSE filtered[n] <=>
                         \A l \in DescendantLeaves(tree, n) : filtered[l]

\* A non-empty query has been applied over other flags: in one directory a
\* shown child comes before a hidden one whose flag had to change, and some
\* directory is hidden as a whole.
C12_Witness ==
    /\ last.op = "filter" /\ last.query # <<>>
    /\ \E d \in Nodes(tree) :
           \E i, j \in 1..Len(children(tree, d)) :
               /\ i < j
               /\ ~filtered[children(tree, d)[i]]
               /\ filtered[children(tree, d)[j]]
               /\ ~last.pre.filtered[children(tree, d)[j]]
    /\ \E d \in Nodes(tree) :
           IsDirectory(tree, d) /\ depth(tree, d) > 0 /\ filtered[d]

\* C13: a text filter changes no included flag, no display state and no
\* masked flag, so get_all_included_files() returns the same list before and
\* after it.
C13_FilterFrame ==
    (last.op = "filter") =>
        /\ included = last.pre.included
        /\ font = last.pre.font
        /\ enabled = last.pre.enabled
        /\ IncludedFiles
               = get_all_included_files(tree, last.pre, folder_structure)

\* A filter that changed flags and hides a leaf that is in the list.
C13_Witness ==
    /\ last.op = "filter"
    /\ filtered # last.pre.filtered
    /\ \E i \in 1..Len(IncludedFiles) : filtered[IncludedFiles[i]]
    /\ \E l \in Nodes(tree) : IsLeaf(tree, l) /\ ~included[l]

\* C14: after prune_fbx(true) a leaf is masked iff its name does not end with
\* the case-sensitive suffix .fbx and a directory (below the holder, which
\* has no checkbox) is masked iff every descendant leaf is masked; after
\* prune_fbx(false) no node is masked.
C14_PruneSetsMask ==
    (last.op \in {"prune_fbx", "init"}) =>
        IF last.flag
        THEN \A n \in Nodes(tree) :
                 depth(tree, n) > 0 =>
                     IF IsLeaf(tree, n)
                     THEN Masked(n) <=> ~endswith(name(tree, n), FbxSuffix)
                     ELSE Masked(n) <=>
                              \A l \in DescendantLeaves(tree, n) : Masked(l)
        ELSE \A n \in Nodes(tree) : ~Masked(n)

\* The mask has just been switched on in a tree with a masked directory, an
\* unmasked directory holding a masked leaf after an unmasked one, and an
\* upper-case .FBX file or an empty directory among the masked leaves.
C14_Witness ==
    /\ last.op = "prune_fbx" /\ last.flag
    /\ \E d \in Nodes(tree) : IsDirectory(tree, d) /\ depth(tree, d) > 0 /\ Masked(d)
    /\ \E d \in Nodes(tree) :
           /\ IsDirectory(tree, d) /\ depth(tree, d) > 0 /\ ~Masked(d)
           /\ \E i, j \in 1..Len(children(tree, d)) :
                  i < j /\ ~Masked(children(tree, d)[i]) /\ Masked(children(tree, d)[j])

\* The mask has just been switched off after it had disabled nodes.
C14_WitnessOff ==
    /\ last.op = "prune_fbx" /\ ~last.flag
    /\ \E n \in Nodes(tree) : ~last.pre.enabled[n]

\* C15: masking is idempotent: from any reachable state prune_fbx(true)
\* applied twice gives the same masked nodes as applied once.
C15_PruneIdempotent ==
    LET once  == prune_fbx(tree, state, folder_structure, TRUE).s
        twice == prune_fbx(tree, once, folder_structure, TRUE).s
    IN  twice.enabled = once.enabled

\* The mask has just been applied by the check box, it disabled some nodes
\* and left others enabled, and the selection had been edited before.
C15_Witness ==
    /\ last.op = "prune_fbx" /\ last.flag
    /\ \E n \in Nodes(tree) : Masked(n) /\ last.pre.enabled[n]
    /\ \E n \in Nodes(tree) : IsLeaf(tree, n) /\ ~Masked(n)
    /\ \E n \in Nodes(tree) : ~included[n]

(***************************************************************************)
(* Vocabulary of the properties of a run.                                  *)
(***************************************************************************)
\* The runs requested so far, by their position in history.
RunIds == 1..Len(history)

\* A file, as opposed to a directory, on disk.
IsFile(n) == ~AllTrees[tree][n].folder

\* No file is selected: get_all_included_files returned no file.
NoFileSelected(h) == \A n \in Range(h.files) : ~IsFile(n)

\* The run did nothing beyond its checks.
NothingProcessed(h) ==
    /\ h.made = {}
    /\ h.loaded = <<>>
    /\ h.copied = <<>>
    /\ h.written = <<>>

\* The lines run k has added to the log: from the log it found up to the log
\* the next run found.
RunLog(k) ==
    SubSeq(log, Len(history[k].log) + 1,
           IF k < Len(history) THEN Len(history[k + 1].log) ELSE Len(log))

\* C16 (as claimed): a run requested while the destination path is empty, the
\* destination is not writable, the source holds no .fbx file or no file is
\* selected fails in its checks: it writes no log line, creates no
\* directory, loads no asset and copies or exports no file.
C16_BadRequestRejected ==
    \A k \in RunIds :
        LET h == history[k]
        IN  (   h.dest = <<>>
             \/ ~h.dest_writable
             \/ ~check_source(tree)
             \/ NoFileSelected(h))
            => /\ h.outcome = "rejected"
               /\ NothingProcessed(h)
               /\ RunLog(k) = <<>>

\* The run passed the checks of __run_processor.
PassedChecks(h) ==
    /\ h.dest # <<>>
    /\ h.dest_writable
    /\ check_source(tree)
    /\ h.files # <<>>

\* The files the run has loaded or copied.
Processed(h) == Range(h.loaded) \cup Range(h.copied)

FinishLines(lines) == SelectSeq(lines, LAMBDA l : l.kind = "finish")

\* C17 (as claimed): a run that passes the checks against a writable
\* destination without an _output directory, with every file included, ends
\* having processed every included file, its log holding exactly one summary
\* line whose processed count equals the total count.
C17_FreshDestinationRunCompletes ==
    \A k \in RunIds :
        LET h == history[k]
        IN  (   PassedChecks(h)
             /\ base_path(h.dest) \notin h.out_dirs
             /\ (\A n \in Nodes(tree) : h.included[n])
             /\ h.outcome # "running")
            => /\ h.outcome = "finished"
               /\ Processed(h) = Range(h.files)
               /\ Len(FinishLines(RunLog(k))) = 1
               /\ FinishLines(RunLog(k))[1].processed = Len(h.files)
               /\ FinishLines(RunLog(k))[1].total = Len(h.files)

OverwriteLines(lines) == SelectSeq(lines, LAMBDA l : l.kind = "overwrite")

GeometryLines(lines) ==
    SelectSeq(lines, LAMBDA l : l.kind \in {"grid", "stretch"})

\* Run k repeats run k - 1: both ran to the end with the same selection,
\* settings and destination.
Repeats(k) ==
    /\ k > 1
    /\ history[k - 1].outcome = "finished"
    /\ history[k].outcome = "finished"
    /\ history[k].files = history[k - 1].files
    /\ history[k].dest = history[k - 1].dest
    /\ history[k].combine_meshes = history[k - 1].combine_meshes
    /\ history[k].own_fbx = history[k - 1].own_fbx
    /\ history[k].scaling = history[k - 1].scaling
    /\ history[k].allow_stretching = history[k - 1].allow_stretching

\* The run logs exactly one overwrite warning for every file it writes.
OneOverwritePerFile(k) ==
    LET over == OverwriteLines(RunLog(k))
        out  == history[k].written
    IN  /\ Len(over) = Len(out)
        /\ \A w \in 1..Len(out) :
               Cardinality({ l \in 1..Len(over) :
                               over[l].path = out[w].path }) = 1

Mirrored(d, n) ==
    base_path(d)
        \o SubSeq(root(tree, n), Len(source_root(tree)) + 1,
                  Len(root(tree, n)))

\* The run writes one file per source file: a copy, or the single export of
\* an asset file.
SingleFile(h, n) ==
    \/ splitext(name(tree, n)).ext # FbxSuffix
    \/ ~(h.own_fbx /\ ~h.combine_meshes)

\* What the output of run k is to the source: every included file has its
\* output directory on disk and an output in it, at the mirrored path when
\* the file gives a single output, and no two source files share a
\* single-file output path.
MirrorsSource(k) ==
    LET h   == history[k]
        out == h.written
    IN  /\ \A n \in Range(h.files) :
               IsFile(n)
               => /\ dirname(Mirrored(h.dest, n)) \in out_dirs
                  /\ \E w \in 1..Len(out) :
                         /\ out[w].src = n
                         /\ dirname(out[w].path)
                                = dirname(Mirrored(h.dest, n))
                         /\ SingleFile(h, n)
                                => out[w].path = Mirrored(h.dest, n)
        /\ \A v, w \in 1..Len(out) :
               (   SingleFile(h, out[v].src) /\ SingleFile(h, out[w].src)
                /\ out[v].src # out[w].src)
               => out[v].path # out[w].path

\* A run that got past its checks and is over.
Ran(h) == h.outcome \in {"finished", "raised"}

\* C19 (as claimed): for every included file of a run the output path is
\* <destination>/_output joined with the file's path relative to the source
\* root, the output directory is created if it is missing, and two distinct
\* source files never get the same single-file output path.
C19_OutputMirrorsSource ==
    \A k \in RunIds : Ran(history[k]) => MirrorsSource(k)

\* The same for the runs that found <destination>/_output on disk and were
\* not stopped by an exception.
MirrorsSourceOnceOpened ==
    \A k \in RunIds : history[k].outcome = "finished" => MirrorsSource(k)

\* The objects of the asset file n.
ObjectsOf(n) ==
    UNION { import(name(tree, n))[o].members :
              o \in 1..Len(import(name(tree, n))) }

\* The files run h has written for the asset file n, as path and content.
WrittenFor(h, n) ==
    { [path |-> h.written[w].path, objects |-> h.written[w].objects] :
        w \in { v \in 1..Len(h.written) : h.written[v].src = n } }

\* <base> of the asset file n: its output path without the extension.
BaseDir(h, n) == dirname(Mirrored(h.dest, n))

BaseName(n) == splitext(name(tree, n)).short

\* C20: for every asset file a run has loaded, the run has written one file
\* <base>_<objectName>.fbx per object, holding that object, exactly when
\* own_fbx is true and combine_meshes is false; in every other combination
\* of the two settings it has written exactly one file <base>.fbx holding
\* all objects of the asset file.
C20_OwnFilesIffOwnAndNotCombine ==
    \A k \in RunIds : \A n \in Range(history[k].loaded) :
        LET h == history[k]
        IN  IF h.own_fbx /\ ~h.combine_meshes
            THEN WrittenFor(h, n)
                   = { [path |-> Append(BaseDir(h, n),
                                        BaseName(n) \o <<"_">> \o o
                                            \o FbxSuffix),
                        objects |-> {o}] : o \in ObjectsOf(n) }
            ELSE WrittenFor(h, n)
                   = { [path |-> Append(BaseDir(h, n),
                                        BaseName(n) \o FbxSuffix),
                        objects |-> ObjectsOf(n)] }

C20_Witness ==
    \E k \in RunIds :
        /\ history[k].own_fbx
        /\ ~history[k].combine_meshes
        /\ \E n \in Range(history[k].loaded) : Cardinality(ObjectsOf(n)) > 1

(***************************************************************************)
(* Failures and warnings of a run.                                         *)
(***************************************************************************)
\* The run failed while it processed a file.
FailedInLoop(h) == h.failed_at > 0

\* The files the run had behind it when it failed.
FilesBefore(h) == { h.files[j] : j \in 1..(h.failed_at - 1) }

\* C21: when a load, an export or a copy fails at file k of a run, the run is
\* over: the files processed are those before k, the log gets no summary
\* line, and every output written for the files before k is still on disk,
\* written once.
C21_FailureStopsRunKeepsOutputs ==
    \A k \in RunIds :
        LET h == history[k]
        IN  FailedInLoop(h)
            => /\ h.outcome = "raised"
               /\ Processed(h) = FilesBefore(h)
               /\ Len(h.loaded) + Len(h.copied) = h.failed_at - 1
               /\ FinishLines(RunLog(k)) = <<>>
               /\ \A w \in 1..Len(h.written) :
                      /\ h.written[w].src \in FilesBefore(h)
                      /\ h.written[w].path \in out_files
                      /\ \A v \in 1..Len(h.written) :
                             h.written[v].path = h.written[w].path => v = w

C21_Witness ==
    \E k \in RunIds :
        /\ history[k].failed_at = 2
        /\ history[k].failure = "export"
        /\ Len(history[k].files) > 2
        /\ history[k].written # <<>>
        /\ k < Len(history)

\* The warning lines among the lines of a log.
WarningLines(lines) ==
    SelectSeq(lines, LAMBDA l : l.kind \in {"overwrite", "grid", "stretch"})

\* C22: a warning does not end a run.  While a run is under way the warnings
\* counted are the warning lines it has logged, and a run that no failure
\* ended has processed every file, the warning count of its summary line
\* being the number of warning lines it appended to the log.
C22_WarningsCountedNotFatal ==
    /\ pc = "processing"
       => warnings = Len(WarningLines(RunLog(Len(history))))
    /\ \A k \in RunIds :
           LET h == history[k]
           IN  h.outcome = "finished"
               => /\ Len(h.loaded) + Len(h.copied) = Len(h.files)
                  /\ Len(FinishLines(RunLog(k))) = 1
                  /\ FinishLines(RunLog(k))[1].warnings
                         = Len(WarningLines(RunLog(k)))

C22_Witness ==
    \E k \in RunIds :
        /\ history[k].outcome = "finished"
        /\ Len(history[k].files) > 1
        /\ \E x, y, z \in 1..Len(RunLog(k)) :
               /\ x < y
               /\ y < z
               /\ RunLog(k)[x].kind = "grid"
               /\ RunLog(k)[y].kind = "stretch"
               /\ RunLog(k)[z].kind = "overwrite"
               /\ z < Len(RunLog(k)) - 1

(***************************************************************************)
(* __adjust_dimensions on one object.  The object is a box with its lower  *)
(* corner in the origin and sides of 0..MaxDim units, or a node without    *)
(* geometry, whose bounding box is the empty box: its minimum lies above   *)
(* its maximum on every axis.  The grid is one of Grids.                   *)
(***************************************************************************)
MaxDim == 6

Grids == { <<2, 2, 2, 2>>, <<10, 10, 10, 10>>, <<1, 2, 3, 2>> }

Box(x, y, z) == Dag(Str_p, TRUE, <<0, 0, 0, x, y, z>>, {Str_p})

\* cmds.exactWorldBoundingBox of a transform without geometry.
EmptyBox == Dag(Str_p, TRUE, <<1, 1, 1, -1, -1, -1>>, {})

Boxes == { Box(x, y, z) : x, y, z \in 0..MaxDim } \cup {EmptyBox}

\* The session around the object: a source tree as it is built at start-up.
StartSession(t, f) ==
    /\ tree = t
    /\ fbx_only = f
    /\ included = StartTree(t, f).included
    /\ bolded   = StartTree(t, f).bolded
    /\ font     = StartTree(t, f).font
    /\ checked  = StartTree(t, f).checked
    /\ enabled  = StartTree(t, f).enabled
    /\ filtered = StartTree(t, f).filtered
    /\ last = [op |-> "init", node |-> 0, flag |-> f, query |-> <<>>,
               pre |-> NewTree(t)]

InitScale ==
    /\ StartSession(2, TRUE)
    /\ NoRun
    /\ scale \in Grids
    /\ main_axis \in 0..2
    /\ allow_stretching \in BOOLEAN
    /\ pivot_placement = <<1, 1, 1>>
    /\ mesh \in Boxes
    /\ applied = <<>>

\* The file the object came from.
InFile == <<Str_r, Str_a_fbx>>

\* __adjust_dimensions([mesh], f): what it logged, counted and handed to
\* cmds.scale.
AdjustDimensions ==
    /\ applied = <<>>
    /\ applied' = <<adjust_dimensions(<<mesh>>, InFile, allow_stretching, 1)>>
    /\ UNCHANGED <<treeVars, settingVars, destVars, diskVars, runVars, buildVars,
                   sceneVars, scale,
                   main_axis, pivot_placement, mesh>>

SpecScale == InitScale /\ [][AdjustDimensions]_vars

\* The call has been made and went through.
Scaled == applied # <<>> /\ ~applied[1].raised

\* The scale factors handed to cmds.scale for the object.
scaleFactors == [a \in 1..3 |-> Norm(applied[1].scaled[1][a])]

\* Every side of the object is a positive multiple of the grid of its axis.
OnGrid ==
    \A a \in 1..3 :
        \E k \in 1..MaxDim : cur_dimensions(mesh)[a] = k * scale[a]

C23_WitnessThrice ==
    /\ applied # <<>>
    /\ allow_stretching
    /\ \A a \in 1..3 : cur_dimensions(mesh)[a] = 3 * scale[a]

LinesOf(kind) == SelectSeq(applied[1].lines, LAMBDA l : l.kind = kind)

\* C24: an object gets one grid-deviation warning when the scale factor of
\* some axis is outside the open interval (0.55, 1.45), and none when every
\* factor is inside.
C24_OneGridWarning ==
    Scaled
    => Len(LinesOf("grid"))
           = IF \E a \in 1..3 :
                    ~Within(scaleFactors[a], Frac(55, 100), Frac(145, 100))
             THEN 1 ELSE 0

\* A side of 0.3 times the grid, and more than one axis outside the interval.
C24_Witness ==
    /\ Scaled
    /\ allow_stretching
    /\ scale = <<10, 10, 10, 10>>
    /\ cur_dimensions(mesh) = <<3, 3, 5>>
    /\ Len(LinesOf("grid")) = 1

\* C25: an object gets one stretch warning when for some pair of axes j < i
\* the ratio of the scale factors of j and i is outside the open interval
\* (0.85, 1.15), and none otherwise; with the grid-deviation warning that
\* makes at most two warnings for an object.
C25_OneStretchWarning ==
    Scaled
    => /\ Len(LinesOf("stretch"))
              = IF \E i \in 1..3 : \E j \in 1..(i - 1) :
                       ~Within(Ratio(scaleFactors[j], scaleFactors[i]),
                               Frac(85, 100), Frac(115, 100))
                THEN 1 ELSE 0
       /\ Len(applied[1].lines) <= 2
       /\ applied[1].warnings = Len(applied[1].lines)

\* Two pairs of axes outside the interval, and a grid-deviation warning too.
C25_Witness ==
    /\ Scaled
    /\ allow_stretching
    /\ scale = <<10, 10, 10, 10>>
    /\ cur_dimensions(mesh) = <<3, 6, 5>>
    /\ Len(LinesOf("stretch")) = 1
    /\ Len(applied[1].lines) = 2

C25_WitnessStretchOnly ==
    /\ Scaled
    /\ Len(LinesOf("stretch")) = 1
    /\ Len(applied[1].lines) = 1

\* C26 (as claimed): for an object with a side of zero or below, with and
\* without stretching and for every main axis, the scaling fails: no scale
\* is applied to the object and no warning is logged for it.
C26_DegenerateBoxFails ==
    (applied # <<>> /\ \E a \in 1..3 : cur_dimensions(mesh)[a] <= 0)
    => /\ applied[1].raised
       /\ applied[1].scaled = <<>>
       /\ applied[1].lines = <<>>

(***************************************************************************)
(* __adjust_pivots on one object, applied up to MaxApplications times.     *)
(* Coordinates are fractions.  Of the object the bounding box and the      *)
(* position of its pivot in world space are kept.                          *)
(***************************************************************************)
MaxApplications == 2

Plus(x, y) == Frac(x.num * y.den + y.num * x.den, x.den * y.den)

Minus(x, y) == Frac(x.num * y.den - y.num * x.den, x.den * y.den)

Half(x) == Frac(x.num, 2 * x.den)

\* x = y
Same(x, y) == x.num * y.den = y.num * x.den

Zero == Frac(0, 1)

\* Variant of pivot that takes the minimum wherever the middle is not asked
\* for.
pivot_min_unless_middle(bbox, i) ==
    IF pivot_placement[i + 1] = 1
    THEN Half(Plus(bbox[i + 1], bbox[i + 3 + 1]))
    ELSE bbox[i + 1]

\* Variant of pivot that does not halve the sum.
pivot_sum(bbox, i) ==
    IF pivot_placement[i + 1] = 1
    THEN Plus(bbox[i + 1], bbox[i + 3 + 1])
    ELSE bbox[(pivot_placement[i + 1] \div 2) * 3 + i + 1]

\* pivot[i] for i in range(3); bbox is the list of Python, counted from 0.
pivot(bbox, i) ==
    IF pivot_placement[i + 1] = 1
    THEN Half(Plus(bbox[i + 1], bbox[i + 3 + 1]))
    ELSE bbox[(pivot_placement[i + 1] \div 2) * 3 + i + 1]

\* The object as the scene holds it: the imported mesh, its pivot in the
\* origin, or what the last application made of it.
object ==
    IF applied = <<>>
    THEN [bbox  |-> [k \in 1..6 |-> Frac(mesh.bbox[k], 1)],
          pivot |-> <<Zero, Zero, Zero>>]
    ELSE [bbox  |-> applied[Len(applied)].bbox,
          pivot |-> applied[Len(applied)].pivot]

\* cmds.xform(obj, piv=pivot, ws=True) puts the pivot at the computed place;
\* cmds.move(0, 0, 0, obj, a=True, scalePivotRelative=True) moves the object
\* so that its pivot is in the origin; cmds.makeIdentity(apply=True) zeroes
\* the transformation values and leaves geometry and pivot where they are.
adjust_pivots(obj) ==
    LET piv == [i \in 1..3 |-> pivot(obj.bbox, i - 1)]
    IN  [computed |-> piv,
         bbox     |-> [k \in 1..6 |->
                          Minus(obj.bbox[k], piv[((k - 1) % 3) + 1])],
         pivot    |-> <<Zero, Zero, Zero>>,
         before   |-> obj]

PivotBoxes ==
    { Dag(Str_p, TRUE, <<a, b, c, x, y, z>>, {Str_p}) :
          a, b, c \in -1..0, x, y, z \in 0..MaxDim }

InitPivot ==
    /\ StartSession(2, TRUE)
    /\ NoRun
    /\ allow_stretching = TRUE
    /\ scale = <<50, 50, 50, 50>>
    /\ main_axis = 0
    /\ pivot_placement \in [1..3 -> 0..2]
    /\ mesh \in PivotBoxes
    /\ applied = <<>>

AdjustPivots ==
    /\ Len(applied) < MaxApplications
    /\ applied' = Append(applied, adjust_pivots(object))
    /\ UNCHANGED <<treeVars, settingVars, destVars, diskVars, runVars, buildVars,
                   sceneVars, scale,
                   main_axis, pivot_placement, mesh>>

SpecPivot == InitPivot /\ [][AdjustPivots]_vars

\* C27: on every axis the new pivot is the minimum of the bounding box for
\* Min, the mean of minimum and maximum for Mid and the maximum for Max,
\* each axis on its own.
C27_PivotPerAxis ==
    \A n \in 1..Len(applied) : \A a \in 1..3 :
        LET lo == applied[n].before.bbox[a]
            hi == applied[n].before.bbox[a + 3]
            p  == applied[n].computed[a]
        IN  /\ pivot_placement[a] = 0 => Same(p, lo)
            /\ pivot_placement[a] = 1 => Same(Plus(p, p), Plus(lo, hi))
            /\ pivot_placement[a] = 2 => Same(p, hi)

\* Placement [Min, Mid, Max] on the box [0,0,0]-[2,4,6] gives [0,2,6].
C27_Witness ==
    /\ Len(applied) = 1
    /\ pivot_placement = <<0, 1, 2>>
    /\ mesh.bbox = <<0, 0, 0, 2, 4, 6>>
    /\ Same(applied[1].computed[1], Frac(0, 1))
    /\ Same(applied[1].computed[2], Frac(2, 1))
    /\ Same(applied[1].computed[3], Frac(6, 1))

\* C28: adjusting the pivot of an object a second time with the same
\* placement changes neither its bounding box nor its pivot.
C28_PivotIdempotent ==
    \A n \in 2..Len(applied) :
        /\ \A k \in 1..6 : Same(applied[n].bbox[k], applied[n - 1].bbox[k])
        /\ \A a \in 1..3 : Same(applied[n].pivot[a], applied[n - 1].pivot[a])
        /\ \A a \in 1..3 : Same(applied[n].computed[a], applied[n].before.pivot[a])

\* The first application moved the object, the second has been made.
C28_Witness ==
    /\ Len(applied) = 2
    /\ pivot_placement = <<0, 1, 2>>
    /\ mesh.bbox = <<-1, 0, -1, 3, 5, 6>>
    /\ ~Same(applied[1].bbox[6], Frac(mesh.bbox[6], 1))

(***************************************************************************)
(* The source directory.  The directories a dialog can return are the      *)
(* trees of Trees.                                                         *)
(***************************************************************************)
\* source_browse: the user picks directory t in the dialog.  check_source
\* looks for an asset file below it; when there is none an error dialog is
\* shown and nothing changes, otherwise _update_all_files builds the tree of
\* t anew.  fbx_only is not applied to the new tree.
SourceBrowse ==
    \E t \in Trees :
        /\ IF check_source(t)
           THEN /\ tree' = t
                /\ Apply(NewTree(t))
           ELSE /\ tree' = tree
                /\ Apply(state)
        /\ last' = [op |-> "source_browse", node |-> 0,
                    flag |-> check_source(t), query |-> <<>>, pre |-> state,
                    root |-> tree, chosen |-> t]
        /\ UNCHANGED <<fbx_only, processorVars>>

NextSource ==
    \/ SourceBrowse
    \/ Include
    \/ SetPruneFbx

SpecSource == Init /\ [][NextSource]_vars

\* C29 (as claimed): the tree on display is never that of a root without an
\* asset file, neither at the start nor after a change of the source; a
\* change to such a root leaves root and tree as they were, a change to a
\* root with an asset file replaces the tree by the new one.
C29_TreeOnlyForAssetRoot ==
    /\ check_source(tree)
    /\ last.op = "source_browse"
       => IF check_source(last.chosen)
          THEN tree = last.chosen /\ state = NewTree(tree)
          ELSE tree = last.root /\ state = last.pre

\* An empty directory: a folder node without children, below the holder.
EmptyDirectory(t, n) ==
    /\ AllTrees[t][n].folder
    /\ depth(t, n) > 0
    /\ children(t, n) = <<>>

\* C30 (as claimed): an empty directory is never among the files
\* get_all_included_files returns, and a directory whose files and non-empty
\* sub-directories are all excluded is not included, whatever the flags of
\* its empty sub-directories.
C30_EmptyDirectoryIsNoOp ==
    \A e \in Nodes(tree) :
        EmptyDirectory(tree, e)
        => /\ e \notin Range(get_all_included_files(tree, state,
                                                    folder_structure))
           /\ LET p == parent(tree, e)
              IN  (\A c \in Range(children(tree, p)) :
                       EmptyDirectory(tree, c) \/ ~included[c])
                  => ~included[p]

(***************************************************************************)
(* The calls of child_include a click leads to.  A call on a directory     *)
(* changes that directory alone; what it finds are the directory's own     *)
(* fields, which nothing has touched since the click, and the fields of    *)
(* its children, which are as the click leaves them.                       *)
(***************************************************************************)
RECURSIVE Ancestors(_, _)
\* The directories above node n, the holder left out.
Ancestors(t, n) ==
    IF depth(t, n) <= 1 THEN {}
    ELSE {parent(t, n)} \cup Ancestors(t, parent(t, n))

\* The child of directory a on the way down to node x.
Towards(t, a, x) ==
    CHOOSE c \in Range(children(t, a)) : c = x \/ c \in Ancestors(t, x)

\* The click on node x made child_include run on directory a: a is the
\* parent of x, or child_include ran on the child of a above x and changed
\* its included flag.
RECURSIVE Called(_, _, _)
Called(t, a, x) ==
    LET c == Towards(t, a, x)
    IN  \/ c = x
        \/ /\ Called(t, c, x)
           /\ last.pre.included[c] # included[c]

\* The rule for one call of child_include(st) on directory a.
PropagationRule(a, st) ==
    LET chs == Range(children(tree, a))
    IN  IF st
        THEN /\ included[a]
             /\ font[a] = IF \E c \in chs : font[c] \in {"bold", "oblique"}
                          THEN "oblique" ELSE "plain"
        ELSE IF \A c \in chs : ~included[c]
             THEN ~included[a] /\ font[a] = "bold"
             ELSE included[a] /\ font[a] = "oblique"

\* C31: every call of child_include a click leads to follows the rule: after
\* a child became included the directory is included, Plain when no child is
\* Bold or Oblique and Oblique otherwise; after a child became excluded the
\* directory is included and Oblique unless all its children are excluded,
\* and then it is excluded and Bold.
C31_PropagationStep ==
    last.op = "include"
    => \A a \in Ancestors(tree, last.node) :
           Called(tree, a, last.node) => PropagationRule(a, last.flag)

C31_Witness ==
    /\ last.op = "include"
    /\ ~last.flag
    /\ \E a, b \in Ancestors(tree, last.node) :
           /\ a # b
           /\ Called(tree, a, last.node)
           /\ Called(tree, b, last.node)
           /\ ~included[a]
           /\ included[b]

C31_WitnessIncluded ==
    /\ last.op = "include"
    /\ last.flag
    /\ \E a \in Ancestors(tree, last.node) :
           /\ Called(tree, a, last.node)
           /\ font[a] = "oblique"
           /\ ~last.pre.included[a]

(***************************************************************************)
(* _update_all_files: the scan of the source directory.  os.walk delivers  *)
(* a directory, the names of its sub-directories and of its files, then    *)
(* walks the sub-directories in turn.  A sub-directory that is a symbolic  *)
(* link or cannot be read is named in dirs and not walked.  A directory is *)
(* a tree of AllTrees, nodes standing for directories and files; links is  *)
(* the set of its sub-directories that are not walked.                     *)
(***************************************************************************)
dirs_of(t, n) == SelectSeq(children(t, n), LAMBDA c : AllTrees[t][c].folder)

files_of(t, n) == SelectSeq(children(t, n), LAMBDA c : ~AllTrees[t][c].folder)

RECURSIVE os_walk(_, _, _)
RECURSIVE os_walk_each(_, _, _, _)
os_walk_each(t, ds, links, k) ==
    IF k > Len(ds) THEN <<>>
    ELSE (IF ds[k] \in links THEN <<>> ELSE os_walk(t, ds[k], links))
         \o os_walk_each(t, ds, links, k + 1)

os_walk(t, n, links) ==
    << [root |-> n, dirs |-> dirs_of(t, n), files |-> files_of(t, n)] >>
    \o os_walk_each(t, dirs_of(t, n), links, 1)

\* The sub-directories of the source root, at any depth.
SubDirectories(t) == { n \in Nodes(t) : AllTrees[t][n].folder /\ depth(t, n) > 1 }

\* The FileTree object made for node n.
Built(n, p, d) == [node |-> n, parent |-> p, depth |-> d]

\* self.depth of the object made for node n.
depth_of(b, n) == (CHOOSE o \in Range(b) : o.node = n).depth

Front(q) == SubSeq(q, 1, Len(q) - 1)

RECURSIVE go_up(_, _)
\* while folder_amount[-1] == 0: pop both lists; stop when they are empty,
\* else count the directory left as done.
go_up(pf, fa) ==
    IF fa[Len(fa)] = 0
    THEN IF Len(pf) = 1 THEN [pf |-> <<>>, fa |-> <<>>]
         ELSE go_up(Front(pf), [Front(fa) EXCEPT ![Len(fa) - 1] = @ - 1])
    ELSE [pf |-> pf, fa |-> fa]

\* The state at the loop `for root, dirs, files in file_iterator`: the holder
\* is made, the lists hold it.
InitBuild ==
    /\ \E t \in 1..Len(AllTrees) : StartSession(t, TRUE)
    /\ DefaultGeometry
    /\ allow_stretching = TRUE
    /\ NoScene
    /\ dest = <<>>
    /\ dest_changed = FALSE
    /\ dest_writable = TRUE
    /\ combine_meshes = TRUE
    /\ own_fbx = FALSE
    /\ scaling = TRUE
    /\ out_dirs = {}
    /\ out_files = {}
    /\ log = <<>>
    /\ pc = "idle"
    /\ files = <<>>
    /\ index = 0
    /\ warnings = 0
    /\ history = <<>>
    /\ \E links \in SUBSET SubDirectories(tree) :
           walk = os_walk(tree, 2, links)
    /\ parent_folders = <<folder_structure>>
    /\ folder_amount = <<1>>
    /\ built = <<Built(folder_structure, 0, 0)>>

\* One pass of the loop.
WalkStep ==
    /\ walk # <<>>
    /\ parent_folders # <<>>
    /\ LET w           == Head(walk)
           last_folder == parent_folders[Len(parent_folders)]
           d           == depth_of(built, last_folder) + 1
           up          == go_up(parent_folders,
                                [folder_amount EXCEPT
                                    ![Len(folder_amount)] = @ - 1])
       IN  /\ built' = Append(built, Built(w.root, last_folder, d))
                       \o [k \in 1..Len(w.files) |->
                              Built(w.files[k], w.root, d + 1)]
           /\ IF Len(w.dirs) # 0
              THEN /\ parent_folders' = Append(parent_folders, w.root)
                   /\ folder_amount' = Append(folder_amount, Len(w.dirs))
              ELSE /\ parent_folders' = up.pf
                   /\ folder_amount' = up.fa
    /\ walk' = Tail(walk)
    /\ UNCHANGED <<treeVars, settingVars, destVars, diskVars, runVars,
                   geometryVars, sceneVars>>

SpecBuild == InitBuild /\ [][WalkStep]_vars

\* The object made for a node has the object of the node's directory as its
\* parent and lies one level below it.
Mirrors(b) ==
    /\ b.parent = parent(tree, b.node)
    /\ b.depth = depth(tree, b.node)
    /\ b.node # folder_structure
       => b.depth = depth_of(built, b.parent) + 1

\* C32 (as claimed): for every hierarchy the scan delivers the tree built
\* mirrors it: the parent of a file node is the node of its directory, the
\* parent of a directory node the node of the directory above it, every node
\* lies one level below its parent, and the root has depth 0 and no parent.
C32_BuiltTreeMirrorsHierarchy ==
    /\ built[1] = Built(folder_structure, 0, 0)
    /\ \A k \in 1..Len(built) : Mirrors(built[k])

(***************************************************************************)
(* The body of the loop of __run_processor, statement by statement, on the *)
(* Maya scene.  The scene is the list cmds.ls(dag=True) gives.  An object  *)
(* of the scene is a Dag record with its geometry as it now is (geo): the  *)
(* bounding box and the pivot, in world space, as fractions.  An imported  *)
(* object has its pivot in the origin.  applied is the record of the       *)
(* statements run, one entry each.                                         *)
(***************************************************************************)
Str_s == <<"s">>

RECURSIVE gcd(_, _)
gcd(a, b) == IF b = 0 THEN a ELSE gcd(b, a % b)

Abs(n) == IF n < 0 THEN -n ELSE n

\* The fraction in lowest terms, the denominator positive.
Lowest(x) ==
    LET g == gcd(Abs(x.num), Abs(x.den))
    IN  Norm(Frac(Norm(x).num \div g, Norm(x).den \div g))

Times(x, y) == Lowest(Frac(Lowest(x).num * Lowest(y).num,
                           Lowest(x).den * Lowest(y).den))

InScene(o) ==
    [name |-> o.name, tr |-> o.tr, bbox |-> o.bbox, members |-> o.members,
     geo |-> [bbox  |-> [k \in 1..6 |-> Frac(o.bbox[k], 1)],
              pivot |-> <<Zero, Zero, Zero>>]]

\* An object the user has in the scene before the run.
Present == InScene(Dag(Str_s, TRUE, <<0, 0, 0, 1, 1, 1>>, {Str_s}))

Names(objs) == { objs[k].name : k \in 1..Len(objs) }

\* cmds.ls(fbx_obj, dag=True): the objects named and the shapes below them.
ls_dag(sc, names) ==
    SelectSeq(sc, LAMBDA o :
        \/ o.name \in names
        \/ /\ ~o.tr
           /\ \E k \in 1..Len(sc) :
                  sc[k].tr /\ sc[k].name \in names
                  /\ sc[k].members = o.members)

\* The scene with every object of objs replaced by what fn makes of it.
Replaced(sc, names, fn(_)) ==
    [k \in 1..Len(sc) |->
        IF sc[k].name \in Names(ls_dag(sc, names)) THEN fn(sc[k]) ELSE sc[k]]

\* cmds.scale(scale[0], scale[1], scale[2], obj, ws=True, r=True): the
\* object is scaled about its pivot.
scaled(o) ==
    LET f == scale_of(o, allow_stretching)
    IN  [o EXCEPT !.geo.bbox =
            [k \in 1..6 |->
                LET a == ((k - 1) % 3) + 1
                IN  Lowest(Plus(o.geo.pivot[a],
                                Times(Minus(o.geo.bbox[k], o.geo.pivot[a]),
                                      f[a])))]]

pivoted(o) ==
    [o EXCEPT !.geo = [bbox  |-> [k \in 1..6 |->
                                     Lowest(adjust_pivots(o.geo).bbox[k])],
                       pivot |-> adjust_pivots(o.geo).pivot]]

\* The statements of the body for an asset file, in the order of the code,
\* and whether the settings switch them on.
Statements == <<"load", "combine", "scale", "pivot", "export", "cleanup">>

SwitchedOn(st) ==
    CASE st = "combine" -> combine_meshes
      [] st = "scale"   -> scaling
      [] st = "pivot"   -> pivot_enabled
      [] OTHER          -> TRUE

\* The first statement of order from place k on that is switched on;
\* "update" after the last.
RECURSIVE following_from(_, _)
following_from(order, k) ==
    IF k > Len(order) THEN "update"
    ELSE IF SwitchedOn(order[k]) THEN order[k]
    ELSE following_from(order, k + 1)

following_in(order, st) ==
    following_from(order, 1 + CHOOSE j \in 1..Len(order) : order[j] = st)

\* Variant of following in which the file is written before the pivots are
\* adjusted.
following_export_first(st) ==
    following_in(<<"load", "combine", "scale", "export", "pivot", "cleanup">>,
                 st)

\* The statement that runs after statement st.
following(st) ==
    following_in(Statements, st)

\* Variant of delete_objects that deletes the transforms and leaves the
\* shapes.
delete_transforms(sc, names) ==
    SelectSeq(sc, LAMBDA o : ~(o.name \in Names(ls_dag(sc, names)) /\ o.tr))

\* fbx_obj = cmds.ls(fbx_obj, dag=True); cmds.delete(fbx_obj)
delete_objects(sc, names) ==
    SelectSeq(sc, LAMBDA o : o.name \notin Names(ls_dag(sc, names)))

\* What a statement leaves in the record.
Entry(op, sc) ==
    [op |-> op, file |-> index + 1, scene |-> sc,
     objects |-> ls_dag(sc, Range(fbx_objs))]

FileTrees == { t \in 1..Len(AllTrees) : AllTrees[t] \in {TreeFlat, TreeNested} }

\* The state at the top of the loop: the checks are passed, the first line
\* of the log is written.
InitFile ==
    /\ \E t \in FileTrees : StartSession(t, FALSE)
    /\ DefaultGeometry
    /\ NoBuild
    /\ allow_stretching = TRUE
    /\ combine_meshes \in BOOLEAN
    /\ own_fbx = FALSE
    /\ scaling \in BOOLEAN
    /\ pivot_enabled \in BOOLEAN
    /\ dest = <<Str_w>>
    /\ dest_changed = FALSE
    /\ dest_writable = TRUE
    /\ out_dirs = {base_path(dest)}
    /\ out_files = {}
    /\ files = get_all_included_files(tree, state, folder_structure)
    /\ log = <<StartLine(Len(files))>>
    /\ pc = "processing"
    /\ index = 0
    /\ warnings = 0
    /\ history = <<>>
    /\ scene \in {<<>>, <<Present>>}
    /\ step = "load"
    /\ fbx_objs = <<>>

fileVars == <<treeVars, settingVars, destVars, scale, main_axis,
              pivot_placement, mesh, buildVars, pivot_enabled, pc, files,
              history>>

\* The file the loop is at.
InWork == root(tree, files[index + 1])

IsAsset == splitext(basename(InWork)).ext = FbxSuffix

\* os.makedirs for the file, then cmds.file(f, i=True) between two
\* cmds.ls(dag=True): fbx_obj gets the objects that are new.
Load ==
    /\ pc = "processing" /\ step = "load" /\ index < Len(files) /\ IsAsset
    /\ LET dir      == directory(tree, dest, InWork)
           in_scene == scene
           now      == scene \o [k \in 1..Len(import(basename(InWork))) |->
                                    InScene(import(basename(InWork))[k])]
           new      == SelectSeq(now, LAMBDA o : o.name \notin Names(in_scene))
       IN  /\ out_dirs' = IF dir \in out_dirs THEN out_dirs
                          ELSE makedirs(out_dirs, dest, dir)
           /\ scene' = now
           /\ fbx_objs' = [k \in 1..Len(new) |-> new[k].name]
           /\ applied' = Append(applied,
                             [op |-> "load", file |-> index + 1,
                              scene |-> in_scene, objects |-> new])
    /\ step' = following("load")
    /\ UNCHANGED <<fileVars, out_files, log, index, warnings>>

\* shutil.copy2 for any other file.
Copy ==
    /\ pc = "processing" /\ step = "load" /\ index < Len(files) /\ ~IsAsset
    /\ LET dir == directory(tree, dest, InWork)
           p   == path(tree, dest, InWork)
       IN  /\ out_dirs' = IF dir \in out_dirs THEN out_dirs
                          ELSE makedirs(out_dirs, dest, dir)
           /\ log' = IF p \in out_files THEN Append(log, OverwriteLine(p))
                     ELSE log
           /\ warnings' = IF p \in out_files THEN warnings + 1 ELSE warnings
           /\ out_files' = out_files \cup {p}
    /\ applied' = Append(applied, Entry("copy", scene))
    /\ step' = "update"
    /\ UNCHANGED <<fileVars, scene, fbx_objs, index>>

\* cmds.polyUnite and the deletion of the construction history: the objects
\* united are gone, the united mesh is in the scene.
Combine ==
    /\ step = "combine"
    /\ LET old   == ls_dag(scene, Range(fbx_objs))
           whole == polyUnite(old)
       IN  /\ scene' = delete_objects(scene, Range(fbx_objs))
                       \o [k \in 1..Len(whole) |-> InScene(whole[k])]
           /\ fbx_objs' = <<whole[1].name>>
           /\ applied' = Append(applied,
                             [op |-> "combine", file |-> index + 1,
                              scene |-> scene', objects |->
                                  [k \in 1..Len(whole) |-> InScene(whole[k])]])
    /\ step' = following("combine")
    /\ UNCHANGED <<fileVars, diskVars, index, warnings>>

\* __adjust_dimensions
Scale ==
    /\ step = "scale"
    /\ LET objs == ls_dag(scene, Range(fbx_objs))
           dims == adjust_dimensions(objs, InWork, allow_stretching, 1)
       IN  /\ scene' = Replaced(scene, Range(fbx_objs), scaled)
           /\ log' = log \o dims.lines
           /\ warnings' = warnings + dims.warnings
           /\ applied' = Append(applied, Entry("scale", scene'))
    /\ step' = following("scale")
    /\ UNCHANGED <<fileVars, out_dirs, out_files, fbx_objs, index>>

\* __adjust_pivots
Pivot ==
    /\ step = "pivot"
    /\ scene' = Replaced(scene, Range(fbx_objs), pivoted)
    /\ applied' = Append(applied,
                      [op |-> "pivot", file |-> index + 1, scene |-> scene',
                       objects |-> ls_dag(scene', Range(fbx_objs)),
                       found |-> ls_dag(scene, Range(fbx_objs))])
    /\ step' = following("pivot")
    /\ UNCHANGED <<fileVars, diskVars, fbx_objs, index, warnings>>

\* __write_file
Export ==
    /\ step = "export"
    /\ LET objs == ls_dag(scene, Range(fbx_objs))
           dir  == directory(tree, dest, InWork)
           wf   == write_file(objs, dir, splitext(basename(InWork)).short,
                              out_files, own_fbx, combine_meshes)
       IN  /\ log' = log \o wf.lines
           /\ warnings' = warnings + wf.warnings
           /\ out_files' = out_files
                  \cup { wf.written[k].path : k \in 1..Len(wf.written) }
    /\ applied' = Append(applied, Entry("export", scene))
    /\ step' = following("export")
    /\ UNCHANGED <<fileVars, out_dirs, scene, fbx_objs, index>>

\* The clean-up of the scene.
Cleanup ==
    /\ step = "cleanup"
    /\ scene' = delete_objects(scene, Range(fbx_objs))
    /\ fbx_objs' = <<>>
    /\ applied' = Append(applied,
                      [op |-> "cleanup", file |-> index + 1, scene |-> scene',
                       objects |-> <<>>])
    /\ step' = following("cleanup")
    /\ UNCHANGED <<fileVars, diskVars, index, warnings>>

\* i += 1 and the progress window; after the last file the closing line.
Update ==
    /\ step = "update"
    /\ index' = index + 1
    /\ IF index + 1 < Len(files)
       THEN /\ step' = "load"
            /\ UNCHANGED log
       ELSE /\ step' = "done"
            /\ log' = Append(log, FinishLine(index + 1, Len(files), warnings))
    /\ UNCHANGED <<fileVars, out_dirs, out_files, scene, fbx_objs, applied,
                   warnings>>

NextFile ==
    \/ Load
    \/ Copy
    \/ Combine
    \/ Scale
    \/ Pivot
    \/ Export
    \/ Cleanup
    \/ Update

SpecFile == InitFile /\ [][NextFile]_vars

\* The statements recorded for file k, in the order they ran.
OpsOf(k) ==
    LET of_k == SelectSeq(applied, LAMBDA e : e.file = k)
    IN  [j \in 1..Len(of_k) |-> of_k[j].op]

IsPrefix(p, q) ==
    Len(p) <= Len(q) /\ \A j \in 1..Len(p) : p[j] = q[j]

\* C33: the statements of an asset file run in the order load, combine,
\* scale, pivot, export, clean-up, the three in the middle only when switched
\* on; the pivots are computed from the bounding boxes the step before (the
\* scaling, when on) left; the file is exported as the last adjustment left
\* it; and a file is loaded only after the file before is cleaned up.
C33_StepsInOrder ==
    /\ \A k \in 1..Len(files) :
           OpsOf(k) # <<>> /\ OpsOf(k)[1] = "load"
               => IsPrefix(OpsOf(k), SelectSeq(Statements, SwitchedOn))
    /\ \A j \in 1..Len(applied) :
           LET e == applied[j]
           IN  /\ e.op = "pivot" =>
                   /\ e.found = applied[j - 1].objects
                   /\ scaling => applied[j - 1].op = "scale"
                   /\ \A k \in 1..Len(e.objects) : \A b \in 1..6 :
                          Same(e.objects[k].geo.bbox[b],
                               Minus(e.found[k].geo.bbox[b],
                                     pivot(e.found[k].geo.bbox, (b - 1) % 3)))
               /\ e.op = "export" =>
                   /\ e.objects = applied[j - 1].objects
                   /\ applied[j - 1].op =
                          (IF pivot_enabled THEN "pivot"
                           ELSE IF scaling THEN "scale"
                           ELSE IF combine_meshes THEN "combine"
                           ELSE "load")
               /\ e.op \in {"load", "copy"} /\ j > 1 =>
                   /\ applied[j - 1].file = e.file - 1
                   /\ applied[j - 1].op \in {"cleanup", "copy"}

C33_Witness ==
    /\ step = "done"
    /\ combine_meshes /\ scaling /\ pivot_enabled
    /\ \E j \in 1..Len(applied) :
           /\ applied[j].op = "pivot"
           /\ applied[j].file > 1
           /\ applied[j].found # applied[j].objects
           /\ applied[j - 1].op = "scale"
           /\ applied[j - 1].objects # applied[j - 2].objects

Cancelled == \E j \in 1..Len(applied) : applied[j].op = "cancel"

RequestCancel ==
    /\ pc = "processing"
    /\ step # "done"
    /\ ~Cancelled
    /\ applied' = Append(applied, Entry("cancel", scene))
    /\ UNCHANGED <<fileVars, diskVars, scene, step, fbx_objs, index, warnings>>

NextCancel ==
    \/ RequestCancel
    \/ NextFile

SpecCancel == InitFile /\ [][NextCancel]_vars

\* C35: after a request to cancel, made while file k is in work, file k is
\* completed and no statement of a later file runs.
C35_CancelAtCheckpoint ==
    \A j \in 1..Len(applied) :
        applied[j].op = "cancel" =>
            \A i \in (j + 1)..Len(applied) :
                applied[i].file <= applied[j].file

(***************************************************************************)
(* The sides of the object after __adjust_dimensions.                      *)
(***************************************************************************)
Positive == \A a \in 1..3 : cur_dimensions(mesh)[a] > 0

\* The side of the object on axis a after cmds.scale.
ScaledDimension(a) == Times(Frac(cur_dimensions(mesh)[a], 1), scaleFactors[a])

\* | cur_dimensions[a] - k * grid[a] |
Distance(a, k) ==
    LET d == Lowest(Minus(Frac(cur_dimensions(mesh)[a], 1),
                          Times(Frac(k, 1), grid(mesh, allow_stretching, a))))
    IN  Frac(Abs(d.num), d.den)

\* The multiples of the grid looked at: past the largest a side can reach.
Multiples == 1..(MaxDim + 2)

\* C36: an object with positive sides has, after scaling, on every axis a
\* side of k times the grid of that axis, k a whole number of at least 1, and
\* no other multiple of at least 1 is nearer to the side it had.
C36_NearestPositiveMultiple ==
    (Scaled /\ Positive)
    => \A a \in 1..3 :
           \E k \in Multiples :
               /\ Same(ScaledDimension(a),
                       Times(Frac(k, 1), grid(mesh, allow_stretching, a)))
               /\ \A other \in Multiples :
                      ~Less(Distance(a, other), Distance(a, k))

\* Sides of 5 on the grid <<1, 2, 3>>: 5 cells, 2 cells (2.5 is rounded to
\* the even 2) and 2 cells.
C36_Witness ==
    /\ Scaled
    /\ allow_stretching
    /\ scale = <<1, 2, 3, 2>>
    /\ cur_dimensions(mesh) = <<5, 5, 5>>
    /\ \A a \in 1..3 : Same(ScaledDimension(a), Frac(<<5, 4, 6>>[a], 1))

\* A side below half a cell is scaled up to one cell.
C36_WitnessOneCell ==
    /\ Scaled
    /\ scale = <<10, 10, 10, 10>>
    /\ cur_dimensions(mesh) = <<1, 4, 6>>
    /\ allow_stretching
    /\ Same(ScaledDimension(1), Frac(10, 1))

(***************************************************************************)
(* The arithmetic of __adjust_dimensions as Python does it: a float is an  *)
(* IEEE 754 double, every division and multiplication is rounded to 53     *)
(* significant bits, to the nearest, a tie to the even one.  A positive    *)
(* double is man * 2^exp with 2^52 <= man < 2^53; man is held in two       *)
(* halves, man = hi * 2^27 + lo, so that no step leaves 32 bits.           *)
(***************************************************************************)
Half27 == 2 ^ 27

Wide(h, l) == [hi |-> h, lo |-> l]

Two52 == Wide(2 ^ 25, 0)

Two53 == Wide(2 ^ 26, 0)

Two54 == Wide(2 ^ 27, 0)

AtLeast(x, y) == x.hi > y.hi \/ (x.hi = y.hi /\ x.lo >= y.lo)

Twice(x) == Wide(2 * x.hi + (2 * x.lo) \div Half27, (2 * x.lo) % Half27)

Halved(x) == Wide(x.hi \div 2, (x.lo + (x.hi % 2) * Half27) \div 2)

\* x * 2^8 and x / 2^8
Up8(x) == Wide(x.hi * 2 ^ 8 + x.lo \div 2 ^ 19, (x.lo % 2 ^ 19) * 2 ^ 8)

Down8(x) == Wide(x.hi \div 2 ^ 8, x.lo \div 2 ^ 8 + (x.hi % 2 ^ 8) * 2 ^ 19)

Odd(x) == x.lo % 2 = 1

\* x - y, for x >= y
Less_y(x, y) ==
    IF x.lo >= y.lo THEN Wide(x.hi - y.hi, x.lo - y.lo)
    ELSE Wide(x.hi - y.hi - 1, x.lo + Half27 - y.lo)

PlusOne(x) ==
    IF x.lo + 1 = Half27 THEN Wide(x.hi + 1, 0) ELSE Wide(x.hi, x.lo + 1)

\* x * n, for a whole number n of at most 15
ByWhole(x, n) ==
    Wide(x.hi * n + (x.lo * n) \div Half27, (x.lo * n) % Half27)

Double(m, e) == [man |-> m, exp |-> e]

\* The double nearest to n * 2^e, given that bits below those of n were cut
\* off, which were not all 0 if sticky.
RECURSIVE nearest(_, _, _)
nearest(n, e, sticky) ==
    IF AtLeast(n, Two54) THEN nearest(Halved(n), e + 1, sticky \/ Odd(n))
    ELSE IF AtLeast(n, Two53)
    THEN LET m  == Halved(n)
             up == Odd(n) /\ (sticky \/ Odd(m))
             r  == IF up THEN PlusOne(m) ELSE m
         IN  IF AtLeast(r, Two53) THEN Double(Halved(r), e + 2)
             ELSE Double(r, e + 1)
    ELSE IF AtLeast(n, Two52) THEN Double(n, e)
    ELSE IF n.hi < 2 ^ 17 THEN nearest(Up8(n), e - 8, sticky)
    ELSE nearest(Twice(n), e - 1, sticky)

\* float(n), for a whole number 0 < n < 2^27
float(n) == nearest(Wide(n, 0), -27, FALSE)

\* One more bit of a quotient: s.q holds the bits found, s.r is the rest.
bit(s, y) ==
    LET r2 == Twice(s.r)
    IN  IF AtLeast(r2, y)
        THEN [q |-> PlusOne(Twice(s.q)), r |-> Less_y(r2, y)]
        ELSE [q |-> Twice(s.q), r |-> r2]

\* The first 55 bits of a quotient of at least 1 and less than 2.
RECURSIVE quotient(_, _)
quotient(s, y) ==
    IF AtLeast(s.q, Two54) THEN s
    ELSE quotient(bit(bit(bit(bit(bit(bit(s, y), y), y), y), y), y), y)

\* x / y
truediv(x, y) ==
    LET first == AtLeast(x.man, y.man)
        top   == IF first THEN x.man ELSE Twice(x.man)
        rest  == quotient([q |-> Wide(0, 1), r |-> Less_y(top, y.man)], y.man)
    IN  nearest(rest.q, x.exp - y.exp - 54 - (IF first THEN 0 ELSE 1),
                rest.r # Wide(0, 0))

\* x * n, for a whole number 0 < n <= 15
mul(x, n) == nearest(ByWhole(x.man, n), x.exp, FALSE)

\* x < y
lt(x, y) ==
    \/ x.exp < y.exp
    \/ x.exp = y.exp /\ ~AtLeast(x.man, y.man)

\* round(x) of Python 3 for a double below 2^27: the nearest whole number, a
\* half to the even one.  guard is the bit cut off last, sticky says whether
\* a bit cut off before it was 1.
RECURSIVE round_double(_, _, _, _)
round_double(n, e, guard, sticky) ==
    IF e >= 0
    THEN IF guard /\ (sticky \/ Odd(n)) THEN n.lo + 1 ELSE n.lo
    ELSE IF n = Wide(0, 0) /\ ~guard THEN 0
    ELSE IF e <= -8
    THEN round_double(Down8(n), e + 8, (n.lo % 2 ^ 8) >= 2 ^ 7,
                      sticky \/ guard \/ (n.lo % 2 ^ 7) # 0)
    ELSE round_double(Halved(n), e + 1, Odd(n), sticky \/ guard)

round_of(x) == round_double(x.man, x.exp, FALSE, FALSE)

(***************************************************************************)
(* __adjust_dimensions on one object in the arithmetic of Python, without  *)
(* stretching.  The object is a box with whole sides of 1..MaxSide, the    *)
(* grid one of Grids.                                                      *)
(***************************************************************************)
MaxSide == 9

\* grid[a] as the code computes it.
grid_double(obj, stretching, a) ==
    IF stretching THEN float(scale[a])
    ELSE mul(truediv(float(cur_dimensions(obj)[a]),
                     float(cur_dimensions(obj)[main_axis + 1])),
             scale[4])

\* max(round(cur_dimensions[a] / grid[a]), 1)
multiple(obj, stretching, a) ==
    Max(round_of(truediv(float(cur_dimensions(obj)[a]),
                         grid_double(obj, stretching, a))),
        1)

\* scale_dim of axis a: grid / cur * max(round(cur / grid), 1).
scale_dim_double(obj, stretching, a) ==
    mul(truediv(grid_double(obj, stretching, a),
                float(cur_dimensions(obj)[a])),
        multiple(obj, stretching, a))

\* lo / 100 < x < hi / 100, the bounds as the literals of the code
within_double(x, lo, hi) ==
    /\ lt(truediv(float(lo), float(100)), x)
    /\ lt(x, truediv(float(hi), float(100)))

\* What the call computes for the object and whether it logs the warnings.
adjust_dimensions_double(obj, stretching) ==
    LET factors == [a \in 1..3 |-> scale_dim_double(obj, stretching, a)]
    IN  [scaled    |-> factors,
         multiples |-> [a \in 1..3 |-> multiple(obj, stretching, a)],
         warning_grid |->
             \E a \in 1..3 : ~within_double(factors[a], 55, 145),
         warning_stretch |->
             \E a \in 1..3 : \E b \in 1..(a - 1) :
                 ~within_double(truediv(factors[b], factors[a]), 85, 115)]

InitDouble ==
    /\ StartSession(2, TRUE)
    /\ NoRun
    /\ scale \in Grids
    /\ main_axis \in 0..2
    /\ allow_stretching = FALSE
    /\ pivot_placement = <<1, 1, 1>>
    /\ mesh \in { Box(x, y, z) : x, y, z \in 1..MaxSide }
    /\ applied = <<>>

AdjustDimensionsDouble ==
    /\ applied = <<>>
    /\ applied' = <<adjust_dimensions_double(mesh, allow_stretching)>>
    /\ UNCHANGED <<treeVars, settingVars, destVars, diskVars, runVars, buildVars,
                   sceneVars, scale, main_axis, pivot_placement, mesh>>

SpecDouble == InitDouble /\ [][AdjustDimensionsDouble]_vars

\* C37: without stretching an object with positive sides is scaled by the
\* same factor on the three axes (every axis gets the same number of cells of
\* its grid, so the proportions are kept), the main axis gets a whole number
\* of at least 1 of cells of the uniform spacing, and no stretch warning is
\* logged.
C37_ProportionsKept ==
    (applied # <<>> /\ ~allow_stretching)
    => /\ \A a \in 1..3 :
              applied[1].multiples[a] = applied[1].multiples[main_axis + 1]
       /\ applied[1].multiples[main_axis + 1] >= 1
       /\ grid_double(mesh, FALSE, main_axis + 1) = float(scale[4])
       /\ ~applied[1].warning_stretch

(***************************************************************************)
(* The format mask and the source directory.                               *)
(***************************************************************************)
\* A file that is not an asset file.
OtherFile(t, n) ==
    ~AllTrees[t][n].folder /\ ~endswith(name(t, n), FbxSuffix)

\* C38: while fbx_only is set, get_all_included_files() returns no file that
\* does not end with .fbx, whatever was done before, a change of the source
\* directory included: a file that is not an asset file is masked exactly
\* when fbx_only is set.
C38_MaskFollowsSetting ==
    /\ fbx_only =>
           \A k \in 1..Len(IncludedFiles) : ~OtherFile(tree, IncludedFiles[k])
    /\ \A n \in Nodes(tree) : OtherFile(tree, n) => (Masked(n) <=> fbx_only)

\* C39: a change of the mask changes no included flag and no display state;
\* from a state without mask, mask on and off again gives the list of
\* get_all_included_files() there was; and a change of the mask and a click
\* on a checkbox that takes clicks before and after it give the same state
\* in either order.
C39_MaskFrame ==
    LET flipped == prune_fbx(tree, state, folder_structure, ~fbx_only).s
        on      == prune_fbx(tree, state, folder_structure, TRUE).s
        off     == prune_fbx(tree, on, folder_structure, FALSE).s
    IN  /\ last.op = "prune_fbx" =>
               /\ included = last.pre.included
               /\ font = last.pre.font
        /\ flipped.included = included /\ flipped.font = font
        /\ ~fbx_only =>
               get_all_included_files(tree, off, folder_structure)
                   = IncludedFiles
        /\ \A n \in Nodes(tree) :
               (depth(tree, n) > 0 /\ enabled[n] /\ flipped.enabled[n]) =>
                   include(tree, flipped, n, ~checked[n])
                       = prune_fbx(tree, include(tree, state, n, ~checked[n]),
                                   folder_structure, ~fbx_only).s

\* The mask has just been switched off again over a selection in which a
\* file that was masked is included and another file is excluded, and a
\* directory takes clicks with the mask and without it.
C39_Witness ==
    /\ last.op = "prune_fbx" /\ ~last.flag
    /\ \E n \in Nodes(tree) :
           /\ ~last.pre.enabled[n] /\ included[n]
           /\ n \in Range(IncludedFiles)
           /\ n \notin Range(get_all_included_files(tree, last.pre,
                                                    folder_structure))
    /\ \E n \in Nodes(tree) : IsLeaf(tree, n) /\ ~included[n]
    /\ \E d \in Nodes(tree) :
           /\ IsDirectory(tree, d) /\ depth(tree, d) > 0
           /\ last.pre.enabled[d]

\* C40: a leaf that was included and has just been toggled to excluded, when
\* toggled back to included, leaves the included flag and the display state
\* of every node as they were before the first toggle.
C40_RoundTripOffOn ==
    (/\ last.op = "include"
     /\ IsLeaf(tree, last.node)
     /\ last.pre.included[last.node]
     /\ ~last.flag)
        => SameSelection(include(tree, state, last.node, TRUE), last.pre)

====
